---- MODULE Spec2Model ----
(***************************************************************************)
(* WebAuthn login flow (lib/auth/webauthn/login.go): LoginFlow.Begin and   *)
(* LoginFlow.Finish running against the LoginIdentity storage.  Every      *)
(* collaborator call of a flow is one step of the calling process, so      *)
(* calls of different processes interleave between storage accesses.       *)
(*                                                                         *)
(* Database service: the selector matching of the reconciler               *)
(* (services.MatchResourceLabels, Server.matcher), the cloud databases     *)
(* watcher (lib/srv/db/cloud/watchers/watcher.go) and the goroutines that  *)
(* feed the reconciler (Server.startReconciler and the two watchers).      *)
(***************************************************************************)
EXTENDS Integers, Sequences, FiniteSets, TLC

\* ---------------------------------------------------------------- bounds
NProcs == 2          \* concurrent callers of the flow
MaxChallenges == 2   \* challenges BeginLogin may draw in one run
MaxCount == 1        \* largest signature counter an authenticator reports
MaxTime == 2         \* clock values time.Now() may return
MaxSelectors == 2    \* selectors in the database service configuration
MaxTicks == 2        \* ticks the watcher's ticker delivers in one run
MaxBatches == 2      \* batches each watcher delivers to its goroutine in one run
MaxChanCap == 1      \* largest capacity of s.reconcileCh

Procs == 1..NProcs

\* ------------------------------------------------------------- constants
loginSessionID == "login"

Users == {"", "alice", "bob"}
RealUsers == Users \ {""}

\* Relying-party identities are host names, kept as their dot-separated labels.
RPID == <<"example", "com">>
AppID == <<"u2f", "example", "com">>
NoRP == <<>>

Origins == {<<"login", "example", "com">>, <<"evil", "example">>}

\* f.U2F: nil, present with an empty AppID, present with an AppID.
U2FConfigs == {"nil", "empty", "set"}

NoDev == [name |-> "", kind |-> "none", id |-> "", counter |-> 0, lastUsed |-> 0]
NoSession == [challenge |-> 0, userID |-> <<>>, allowed |-> <<>>]
NoAssertion == [challenge |-> 0, rpID |-> NoRP, allowed |-> <<>>, appid |-> NoRP]
NoHandle == <<>>

\* The registered devices of each user at construction.  alice holds a TOTP
\* device (never a WebAuthn credential; its secret is the bytes "cred9"), a U2F
\* device and a Webauthn device; bob has no device.
InitDevices ==
  [u \in Users |->
     IF u = "alice"
     THEN << [name |-> "otp", kind |-> "totp", id |-> "cred9", counter |-> 0, lastUsed |-> 0],
             [name |-> "yubi", kind |-> "u2f", id |-> "kh1", counter |-> 0, lastUsed |-> 0],
             [name |-> "touch", kind |-> "webauthn", id |-> "cred1", counter |-> 0, lastUsed |-> 0] >>
     ELSE << >>]

CredIDs == {"kh1", "cred1", "cred9"}

\* resp *CredentialAssertionResponse: nil, a body the codec cannot parse, or a
\* well-formed assertion (raw credential id, client-data origin, the challenge
\* it was signed over, and the relying party its signature verifies for).
NilResp == [kind |-> "nil", rawID |-> "", origin |-> NoRP, challenge |-> 0,
            signedFor |-> NoRP, counter |-> 0]
MalformedResp == [NilResp EXCEPT !.kind = "malformed"]
\* Challenge 0 is a challenge no Begin ever drew.
OkResponses ==
  [kind : {"ok"}, rawID : CredIDs, origin : Origins, challenge : 0..MaxChallenges,
   signedFor : {RPID, AppID, NoRP}, counter : 1..MaxCount]
Responses == {NilResp, MalformedResp} \cup OkResponses

VARIABLES
  disabled,    \* f.Webauthn.Disabled
  u2f,         \* f.U2F
  devices,     \* Identity: user -> MFA devices
  sessions,    \* Identity: <<user, sessionID>> -> SessionData
  localAuth,   \* Identity: user -> WebauthnLocalAuth.UserID
  nextChal,    \* the next challenge protocol.CreateChallenge draws
  now,         \* time.Now()
  pc,          \* per process: position in Begin / Finish
  call,        \* per process: operation and arguments of the current/last call
  loc,         \* per process: local variables of the running call
  ret,         \* per process: what the last call returned
  calls,       \* per process: collaborator calls of the current/last call, in order
  okCount,     \* per challenge: successful Finish calls verified against it (capped at 2)
  delFailed,   \* challenges whose DeleteWebauthnSessionData failed
  stored,      \* per user: challenges of the session states Begin stored, oldest first
  prevOK       \* per process: user and response of the call before, if it was a
               \* Finish that succeeded and deleted the session state

\* The database service.
VARIABLES
  selectors,         \* s.cfg.Selectors
  mResource,         \* the resource handed to MatchResourceLabels / Server.matcher
  mResult,           \* what the last matching call returned
  ctxDone,           \* ctx is cancelled
  scRet,             \* what startCloudDatabasesWatcher returned
  fetchers,          \* w.fetchers
  wPc,               \* position of Watcher.Start
  wLoc,              \* fetchAndSend: index of the next fetcher, result, outcomes so far
  tick,              \* ticker.C holds a tick
  wLog,              \* history of Watcher.Start: ticks, rounds, batches
  rPc,               \* position of the reconciler loop and of the two watcher goroutines
  rHeld,             \* per watcher goroutine: the batch it received
  rCap,              \* capacity of s.reconcileCh
  reconcileCh,       \* s.reconcileCh: signals sent and not yet received
  dynamicDatabases,  \* s.dynamicDatabases
  cloudDatabases,    \* s.cloudDatabases
  rNextV,            \* per watcher: the number of the next batch it delivers
  rRun               \* the reconciler's current / last Reconcile: its signal and its input

loginVars == <<disabled, u2f, devices, sessions, localAuth, nextChal, now,
               pc, call, loc, ret, calls, okCount, delFailed, stored, prevOK>>
matchVars == <<mResource, mResult>>
watcherVars == <<scRet, fetchers, wPc, wLoc, tick, wLog>>
reconVars == <<rPc, rHeld, rCap, reconcileCh, dynamicDatabases, cloudDatabases, rNextV, rRun>>
dbVars == <<selectors, ctxDone, matchVars, watcherVars, reconVars>>

vars == <<loginVars, dbVars>>

cfgVars == <<disabled, u2f>>
storeVars == <<devices, sessions, localAuth>>
ghostVars == <<okCount, delFailed, stored, prevOK>>

NoPrev == [set |-> FALSE, user |-> "", resp |-> NilResp]
NoStores == [devices |-> <<>>, sessions |-> <<>>, localAuth |-> <<>>]
\* start, before and replay record the clock, the stores and whether the call
\* repeats the call before, at the moment the call starts; retry tells whether
\* the caller repeats a call that failed ("failed": a Begin; "storage": a Finish
\* that got a storage error; "verified": one that got it after verification).
NoCall == [op |-> "none", user |-> "", resp |-> NilResp, start |-> 0,
           before |-> NoStores, replay |-> FALSE, retry |-> "no"]
NoLoc == [dev |-> NoDev, webID |-> NoHandle, sd |-> NoSession,
          creds |-> <<>>, assertion |-> NoAssertion]
\* rpID and origin: what Finish built its verifier with; warned: the clone
\* warning was logged.
NoRet == [err |-> "none", dev |-> NoDev, assertion |-> NoAssertion,
          rpID |-> NoRP, origin |-> NoRP, warned |-> FALSE]

\* ----------------------------------------------- database service: values

\* types.Labels with no key (a nil or empty map).
NoLabels == [k \in {} |-> <<>>]

\* A services.Selector: MatchLabels and MatchRDS (Regions, Tags).
NoSelector == [MatchLabels |-> NoLabels, MatchRDS |-> [Regions |-> <<>>, Tags |-> NoLabels]]

NoResource == [labels |-> NoLabels, cloud |-> FALSE]
NoMatch == [fn |-> "none", value |-> FALSE]

\* The goroutines of Server: the reconciler loop and the two watcher goroutines.
Watchers == {"dynamic", "cloud"}
Goroutines == {"reconciler"} \cup Watchers

NoWLoc == [idx |-> 0, result |-> <<>>, got |-> <<>>]
NoWLog == [ticks |-> 0, rounds |-> 0, consumed |-> 0, sent |-> 0, abandoned |-> 0,
           batch |-> <<>>, got |-> <<>>]
NoSignal == [src |-> "none", v |-> 0]
NoRun == [signal |-> NoSignal, input |-> <<>>, runs |-> 0]

\* Nothing of the database service has run.
MatchIdle == mResource = NoResource /\ mResult = NoMatch
WatcherIdle ==
  /\ scRet = "none"
  /\ fetchers = <<>>
  /\ wPc = "off"
  /\ wLoc = NoWLoc
  /\ tick = FALSE
  /\ wLog = NoWLog
ReconIdle ==
  /\ rPc = [g \in Goroutines |-> "off"]
  /\ rHeld = [g \in Watchers |-> <<>>]
  /\ rCap = 0
  /\ reconcileCh = <<>>
  /\ dynamicDatabases = <<>>
  /\ cloudDatabases = <<>>
  /\ rNextV = [g \in Watchers |-> 1]
  /\ rRun = NoRun
DbIdle == selectors = <<>> /\ ctxDone = FALSE /\ MatchIdle /\ WatcherIdle /\ ReconIdle

\* The stores and the callers after construction, for a given configuration
\* and given registered devices.
InitFrom(dis, cfg, devs) ==
  /\ disabled = dis
  /\ u2f = cfg
  /\ devices = devs
  /\ sessions = [k \in Users \X {loginSessionID} |-> NoSession]
  /\ localAuth = [u \in Users |-> NoHandle]
  /\ nextChal = 1
  /\ now = 1
  /\ pc = [p \in Procs |-> "idle"]
  /\ call = [p \in Procs |-> NoCall]
  /\ loc = [p \in Procs |-> NoLoc]
  /\ ret = [p \in Procs |-> NoRet]
  /\ calls = [p \in Procs |-> <<>>]
  /\ okCount = [c \in 1..MaxChallenges |-> 0]
  /\ delFailed = {}
  /\ stored = [u \in Users |-> <<>>]
  /\ prevOK = [p \in Procs |-> NoPrev]

InitWith(dis, cfg) == InitFrom(dis, cfg, InitDevices) /\ DbIdle

Init == \E dis \in BOOLEAN, cfg \in U2FConfigs : InitWith(dis, cfg)

\* ------------------------------------------------------------ error values
ErrDisabled == "BadParameter: webauthn disabled"
ErrUserRequired == "BadParameter: user required"
ErrRespRequired == "BadParameter: credential assertion response required"
ErrParse == "ParseError"
ErrOrigin == "BadParameter: origin mismatch"
ErrStorage == "StorageError"
ErrUnknownCredential == "BadParameter: unknown device credential"
ErrU2FConfig == "BadParameter: U2F configuration not present"
ErrNoLocalAuth == "NotFound: webauthn local auth"
ErrNoSession == "NotFound: webauthn session data"
ErrWebAuthnConfig == "webauthn configuration rejected"
ErrVerification == "VerificationFailed"
ErrDeviceType == "BadParameter: unexpected device type"
ErrChallenge == "challenge construction failed"

\* ------------------------------------------------------------ pure helpers

\* validateOrigin(origin, rpID): the origin's host is the RPID or a subdomain of it.
validateOrigin(origin, rpID) ==
  \/ origin = rpID
  \/ /\ Len(origin) > Len(rpID)
     /\ \A j \in 1..Len(rpID) : origin[Len(origin) - Len(rpID) + j] = rpID[j]

\* Mutant: findDeviceByID comparing the identifier of a device of any kind.
DeviceHasID_AnyKind(dev, id) == dev.id = id

\* Mutant: findDeviceByID accepting a device whose identifier starts with id
\* (bytes.HasPrefix for bytes.Equal).
DeviceHasID_Prefix(dev, id) ==
  /\ dev.kind \in {"u2f", "webauthn"}
  /\ Len(id) <= Len(dev.id)
  /\ \A k \in 1..Len(id) : dev.id[k] = id[k]

\* Whether findDeviceByID's switch compares this device with id and finds it equal.
DeviceHasID(dev, id) ==
  \/ dev.kind = "u2f" /\ dev.id = id
  \/ dev.kind = "webauthn" /\ dev.id = id

\* findDeviceByID: the index of the first device whose key handle or credential
\* id equals id; 0 stands for (nil, false).
findDeviceByID(devs, id) ==
  IF \E i \in 1..Len(devs) : DeviceHasID(devs[i], id)
  THEN CHOOSE i \in 1..Len(devs) :
         /\ DeviceHasID(devs[i], id)
         /\ \A j \in 1..(i - 1) : ~DeviceHasID(devs[j], id)
  ELSE 0

RECURSIVE CredentialIDs(_)
\* newWebUser(..., credentialIDOnly, devices): the credential ids of the U2F and
\* Webauthn devices, in list order.
CredentialIDs(devs) ==
  IF devs = <<>> THEN <<>>
  ELSE IF Head(devs).kind \in {"u2f", "webauthn"}
       THEN <<Head(devs).id>> \o CredentialIDs(Tail(devs))
       ELSE CredentialIDs(Tail(devs))

SeqToSet(s) == {s[i] : i \in 1..Len(s)}

\* f.U2F.AppID when f.U2F is not nil.
U2FAppID == IF u2f = "set" THEN AppID ELSE NoRP

\* Mutant: Begin never passing the appid extension.
BeginAppIDExtension_Never == NoRP

\* The appid extension Begin passes to BeginLogin (NoRP: no extension).
BeginAppIDExtension == IF u2f # "nil" /\ U2FAppID # NoRP THEN U2FAppID ELSE NoRP

\* Mutant: Finish verifying every device against the relying-party ID.
FinishRPID_AlwaysRPID(dev) == RPID

\* Finish's rpID switch: "error" on a U2F device without U2F configuration.
FinishU2FConfigMissing(dev) == dev.kind = "u2f" /\ u2f = "nil"
FinishRPID(dev) == IF dev.kind = "u2f" THEN U2FAppID ELSE RPID

\* web.ValidateLogin(u, sessionData, parsedResp) with web built for rpID: the
\* session belongs to the user handle, the credential is the user's (single)
\* credential and is allowed by the session, the response was signed over the
\* session's challenge, and its signature verifies for rpID.
ValidateLogin(dev, webID, sd, resp, rpID) ==
  /\ sd.userID = webID
  /\ resp.rawID = dev.id
  /\ (sd.allowed = <<>> \/ resp.rawID \in SeqToSet(sd.allowed))
  /\ resp.challenge = sd.challenge
  /\ rpID # NoRP
  /\ resp.signedFor = rpID

\* Authenticator.UpdateCounter: a counter that did not increase raises the clone
\* warning and leaves the stored sign count.
CloneWarning(dev, resp) == resp.counter <= dev.counter /\ (resp.counter # 0 \/ dev.counter # 0)
SignCount(dev, resp) == IF CloneWarning(dev, resp) THEN dev.counter ELSE resp.counter

\* Mutant: setCounterAndTimestamps stamping the time without the counter.
setCounterAndTimestamps_KeepCounter(dev, signCount, t) ==
  IF dev.kind \in {"u2f", "webauthn"} THEN [dev EXCEPT !.lastUsed = t] ELSE dev

\* setCounterAndTimestamps: ok for U2F and Webauthn devices only.
setCounterAndTimestampsOK(dev) == dev.kind \in {"u2f", "webauthn"}
setCounterAndTimestamps(dev, signCount, t) ==
  IF setCounterAndTimestampsOK(dev)
  THEN [dev EXCEPT !.counter = signCount, !.lastUsed = t]
  ELSE dev

\* Identity.UpsertMFADevice: replaces the stored device of the same name.
UpsertMFADevice(devs, dev) ==
  IF \E i \in 1..Len(devs) : devs[i].name = dev.name
  THEN [i \in 1..Len(devs) |-> IF devs[i].name = dev.name THEN dev ELSE devs[i]]
  ELSE Append(devs, dev)

\* getOrCreateUserWebauthnID: the stored handle, or a new one for the user.
HandleOf(u) == <<"webauthn-id", u>>
getOrCreateUserWebauthnID(u) == IF localAuth[u] # NoHandle THEN localAuth[u] ELSE HandleOf(u)

\* ------------------------------------------------------------ call plumbing
Logged(p, fn, ok) == [calls EXCEPT ![p] = Append(@, [fn |-> fn, ok |-> ok])]

\* The call of process p returns r: its locals die.
Return(p, r) ==
  /\ pc' = [pc EXCEPT ![p] = "done"]
  /\ ret' = [ret EXCEPT ![p] = r]
  /\ loc' = [loc EXCEPT ![p] = NoLoc]

Stores == [devices |-> devices, sessions |-> sessions, localAuth |-> localAuth]

Fail(p, e) == Return(p, [NoRet EXCEPT !.err = e])

Goto(p, label, l) ==
  /\ pc' = [pc EXCEPT ![p] = label]
  /\ loc' = [loc EXCEPT ![p] = l]
  /\ ret' = ret

\* Begin calls that have not drawn their challenge yet.
PendingChallenges ==
  Cardinality({p \in Procs : pc[p] \in {"B_GetMFADevices", "B_GetUserID", "B_BeginLogin"}})

\* ------------------------------------------------------------------- Begin

\* Mutant: Begin without the empty-user case of its switch.
BeginStart_NoUserCheck(p, U) ==
  /\ pc[p] = "idle"
  /\ \E u \in U :
       /\ call' = [call EXCEPT ![p] = [op |-> "Begin", user |-> u, resp |-> NilResp, start |-> now,
                                       before |-> Stores, replay |-> FALSE, retry |-> "no"]]
       /\ calls' = [calls EXCEPT ![p] = <<>>]
       /\ IF disabled THEN Fail(p, ErrDisabled)
          ELSE /\ nextChal + PendingChallenges <= MaxChallenges
               /\ pc' = [pc EXCEPT ![p] = "B_GetMFADevices"]
               /\ ret' = [ret EXCEPT ![p] = NoRet]
               /\ loc' = [loc EXCEPT ![p] = NoLoc]
  /\ UNCHANGED <<dbVars, cfgVars, storeVars, ghostVars, nextChal, now>>

\* Begin, lines 98-104: the precondition switch.
BeginStart(p, U) ==
  /\ pc[p] = "idle"
  /\ \E u \in U :
       /\ call' = [call EXCEPT ![p] = [op |-> "Begin", user |-> u, resp |-> NilResp, start |-> now,
                                       before |-> Stores, replay |-> FALSE, retry |-> "no"]]
       /\ calls' = [calls EXCEPT ![p] = <<>>]
       /\ IF disabled THEN Fail(p, ErrDisabled)
          ELSE IF u = "" THEN Fail(p, ErrUserRequired)
          ELSE /\ nextChal + PendingChallenges <= MaxChallenges
               /\ pc' = [pc EXCEPT ![p] = "B_GetMFADevices"]
               /\ ret' = [ret EXCEPT ![p] = NoRet]
               /\ loc' = [loc EXCEPT ![p] = NoLoc]
  /\ UNCHANGED <<dbVars, cfgVars, storeVars, ghostVars, nextChal, now>>

\* Mutant: Begin rejecting a user that has no devices.
BeginGetMFADevices_RejectEmpty(p) ==
  /\ pc[p] = "B_GetMFADevices"
  /\ \E ok \in BOOLEAN :
       /\ calls' = Logged(p, "GetMFADevices", ok)
       /\ IF ~ok THEN Fail(p, ErrStorage)
          ELSE IF devices[call[p].user] = <<>> THEN Fail(p, ErrUnknownCredential)
          ELSE Goto(p, "B_GetUserID", [loc[p] EXCEPT !.creds = CredentialIDs(devices[call[p].user])])
  /\ UNCHANGED <<dbVars, cfgVars, storeVars, ghostVars, nextChal, now, call>>

\* Begin, lines 109-112: f.Identity.GetMFADevices.
BeginGetMFADevices(p) ==
  /\ pc[p] = "B_GetMFADevices"
  /\ \E ok \in BOOLEAN :
       /\ calls' = Logged(p, "GetMFADevices", ok)
       /\ IF ok
          THEN Goto(p, "B_GetUserID", [loc[p] EXCEPT !.creds = CredentialIDs(devices[call[p].user])])
          ELSE Fail(p, ErrStorage)
  /\ UNCHANGED <<dbVars, cfgVars, storeVars, ghostVars, nextChal, now, call>>

\* Begin, lines 121-125: getOrCreateUserWebauthnID.
BeginGetUserID(p) ==
  /\ pc[p] = "B_GetUserID"
  /\ \E ok \in BOOLEAN :
       /\ calls' = Logged(p, "getOrCreateUserWebauthnID", ok)
       /\ IF ok
          THEN /\ localAuth' = [localAuth EXCEPT ![call[p].user] = getOrCreateUserWebauthnID(call[p].user)]
               /\ Goto(p, "B_BeginLogin", [loc[p] EXCEPT !.webID = getOrCreateUserWebauthnID(call[p].user)])
          ELSE /\ localAuth' = localAuth
               /\ Fail(p, ErrStorage)
  /\ UNCHANGED <<dbVars, cfgVars, devices, sessions, ghostVars, nextChal, now, call>>

\* Mutant: Begin dropping the stored session state before it builds the new
\* challenge.
BeginLogin_DropOld(p) ==
  /\ pc[p] = "B_BeginLogin"
  /\ sessions' = [sessions EXCEPT ![<<call[p].user, loginSessionID>>] = NoSession]
  /\ \E ok \in BOOLEAN :
       IF ok
       THEN /\ nextChal' = nextChal + 1
            /\ Goto(p, "B_UpsertSession",
                    [loc[p] EXCEPT
                       !.assertion = [challenge |-> nextChal, rpID |-> RPID,
                                      allowed |-> loc[p].creds, appid |-> BeginAppIDExtension],
                       !.sd = [challenge |-> nextChal, userID |-> loc[p].webID,
                               allowed |-> loc[p].creds]])
       ELSE /\ nextChal' = nextChal
            /\ Fail(p, ErrChallenge)
  /\ UNCHANGED <<dbVars, cfgVars, devices, localAuth, ghostVars, now, call, calls>>

\* Begin, lines 113-119 and 127-142: newWebAuthn, web.BeginLogin, sessionToPB.
BeginLogin(p) ==
  /\ pc[p] = "B_BeginLogin"
  /\ \E ok \in BOOLEAN :
       IF ok
       THEN /\ nextChal' = nextChal + 1
            /\ Goto(p, "B_UpsertSession",
                    [loc[p] EXCEPT
                       !.assertion = [challenge |-> nextChal, rpID |-> RPID,
                                      allowed |-> loc[p].creds, appid |-> BeginAppIDExtension],
                       !.sd = [challenge |-> nextChal, userID |-> loc[p].webID,
                               allowed |-> loc[p].creds]])
       ELSE /\ nextChal' = nextChal
            /\ Fail(p, ErrChallenge)
  /\ UNCHANGED <<dbVars, cfgVars, storeVars, ghostVars, now, call, calls>>

\* Mutant: Begin keeping a session state that is already stored.
BeginUpsertSession_KeepFirst(p) ==
  /\ pc[p] = "B_UpsertSession"
  /\ \E ok \in BOOLEAN :
       /\ calls' = Logged(p, "UpsertWebauthnSessionData", ok)
       /\ IF ok
          THEN /\ sessions' = IF sessions[<<call[p].user, loginSessionID>>] = NoSession
                              THEN [sessions EXCEPT ![<<call[p].user, loginSessionID>>] = loc[p].sd]
                              ELSE sessions
               /\ stored' = [stored EXCEPT ![call[p].user] = Append(@, loc[p].sd.challenge)]
               /\ Return(p, [NoRet EXCEPT !.assertion = loc[p].assertion])
          ELSE /\ UNCHANGED <<sessions, stored>>
               /\ Fail(p, ErrStorage)
  /\ UNCHANGED <<dbVars, cfgVars, devices, localAuth, okCount, delFailed, prevOK, nextChal, now, call>>

\* Begin, lines 143-147: f.Identity.UpsertWebauthnSessionData and return.
BeginUpsertSession(p) ==
  /\ pc[p] = "B_UpsertSession"
  /\ \E ok \in BOOLEAN :
       /\ calls' = Logged(p, "UpsertWebauthnSessionData", ok)
       /\ IF ok
          THEN /\ sessions' = [sessions EXCEPT ![<<call[p].user, loginSessionID>>] = loc[p].sd]
               /\ stored' = [stored EXCEPT ![call[p].user] = Append(@, loc[p].sd.challenge)]
               /\ Return(p, [NoRet EXCEPT !.assertion = loc[p].assertion])
          ELSE /\ UNCHANGED <<sessions, stored>>
               /\ Fail(p, ErrStorage)
  /\ UNCHANGED <<dbVars, cfgVars, devices, localAuth, okCount, delFailed, prevOK, nextChal, now, call>>

\* ------------------------------------------------------------------ Finish

\* Mutant: Finish without the origin validation.
FinishStart_NoOriginCheck(p, U, R) ==
  /\ pc[p] = "idle"
  /\ \E u \in U, r \in R :
       /\ r.challenge < nextChal
       /\ call' = [call EXCEPT ![p] = [op |-> "Finish", user |-> u, resp |-> r, start |-> now,
                                       before |-> Stores,
                                       replay |-> prevOK[p] = [set |-> TRUE, user |-> u, resp |-> r],
                                       retry |-> "no"]]
       /\ calls' = [calls EXCEPT ![p] = <<>>]
       /\ IF disabled THEN Fail(p, ErrDisabled)
          ELSE IF u = "" THEN Fail(p, ErrUserRequired)
          ELSE IF r.kind = "nil" THEN Fail(p, ErrRespRequired)
          ELSE IF r.kind = "malformed" THEN Fail(p, ErrParse)
          ELSE /\ pc' = [pc EXCEPT ![p] = "F_GetMFADevices"]
               /\ ret' = [ret EXCEPT ![p] = NoRet]
               /\ loc' = [loc EXCEPT ![p] = NoLoc]
  /\ UNCHANGED <<dbVars, cfgVars, storeVars, ghostVars, nextChal, now>>

\* Mutant: Finish testing the response before the user.
FinishStart_RespFirst(p, U, R) ==
  /\ pc[p] = "idle"
  /\ \E u \in U, r \in R :
       /\ r.challenge < nextChal
       /\ call' = [call EXCEPT ![p] = [op |-> "Finish", user |-> u, resp |-> r, start |-> now,
                                       before |-> Stores,
                                       replay |-> prevOK[p] = [set |-> TRUE, user |-> u, resp |-> r],
                                       retry |-> "no"]]
       /\ calls' = [calls EXCEPT ![p] = <<>>]
       /\ IF disabled THEN Fail(p, ErrDisabled)
          ELSE IF r.kind = "nil" THEN Fail(p, ErrRespRequired)
          ELSE IF u = "" THEN Fail(p, ErrUserRequired)
          ELSE IF r.kind = "malformed" THEN Fail(p, ErrParse)
          ELSE IF ~validateOrigin(r.origin, RPID) THEN Fail(p, ErrOrigin)
          ELSE /\ pc' = [pc EXCEPT ![p] = "F_GetMFADevices"]
               /\ ret' = [ret EXCEPT ![p] = NoRet]
               /\ loc' = [loc EXCEPT ![p] = NoLoc]
  /\ UNCHANGED <<dbVars, cfgVars, storeVars, ghostVars, nextChal, now>>

\* Finish, lines 154-175: the precondition switch, parseCredentialResponse and
\* validateOrigin.  A response is signed over a challenge drawn before the call.
FinishStart(p, U, R) ==
  /\ pc[p] = "idle"
  /\ \E u \in U, r \in R :
       /\ r.challenge < nextChal
       /\ call' = [call EXCEPT ![p] = [op |-> "Finish", user |-> u, resp |-> r, start |-> now,
                                       before |-> Stores,
                                       replay |-> prevOK[p] = [set |-> TRUE, user |-> u, resp |-> r],
                                       retry |-> "no"]]
       /\ calls' = [calls EXCEPT ![p] = <<>>]
       /\ IF disabled THEN Fail(p, ErrDisabled)
          ELSE IF u = "" THEN Fail(p, ErrUserRequired)
          ELSE IF r.kind = "nil" THEN Fail(p, ErrRespRequired)
          ELSE IF r.kind = "malformed" THEN Fail(p, ErrParse)
          ELSE IF ~validateOrigin(r.origin, RPID) THEN Fail(p, ErrOrigin)
          ELSE /\ pc' = [pc EXCEPT ![p] = "F_GetMFADevices"]
               /\ ret' = [ret EXCEPT ![p] = NoRet]
               /\ loc' = [loc EXCEPT ![p] = NoLoc]
  /\ UNCHANGED <<dbVars, cfgVars, storeVars, ghostVars, nextChal, now>>

\* Finish, lines 177-200: f.Identity.GetMFADevices, findDeviceByID and the
\* rpID switch.
FinishGetMFADevices(p) ==
  /\ pc[p] = "F_GetMFADevices"
  /\ \E ok \in BOOLEAN :
       /\ calls' = Logged(p, "GetMFADevices", ok)
       /\ IF ~ok THEN Fail(p, ErrStorage)
          ELSE LET devs == devices[call[p].user]
                   i == findDeviceByID(devs, call[p].resp.rawID)
               IN IF i = 0 THEN Fail(p, ErrUnknownCredential)
                  ELSE IF FinishU2FConfigMissing(devs[i]) THEN Fail(p, ErrU2FConfig)
                  ELSE Goto(p, "F_GetLocalAuth", [loc[p] EXCEPT !.dev = devs[i]])
  /\ UNCHANGED <<dbVars, cfgVars, storeVars, ghostVars, nextChal, now, call>>

\* Mutant: Finish creating the user handle it does not find, as Begin does.
FinishGetLocalAuth_Create(p) ==
  /\ pc[p] = "F_GetLocalAuth"
  /\ \E ok \in BOOLEAN :
       /\ calls' = Logged(p, "GetWebauthnLocalAuth", ok)
       /\ IF ok
          THEN /\ localAuth' = [localAuth EXCEPT ![call[p].user] = getOrCreateUserWebauthnID(call[p].user)]
               /\ Goto(p, "F_GetSession", [loc[p] EXCEPT !.webID = getOrCreateUserWebauthnID(call[p].user)])
          ELSE /\ localAuth' = localAuth
               /\ Fail(p, ErrStorage)
  /\ UNCHANGED <<dbVars, cfgVars, devices, sessions, ghostVars, nextChal, now, call>>

\* Finish, lines 202-207: f.Identity.GetWebauthnLocalAuth.
FinishGetLocalAuth(p) ==
  /\ pc[p] = "F_GetLocalAuth"
  /\ \E ok \in BOOLEAN :
       /\ calls' = Logged(p, "GetWebauthnLocalAuth", ok)
       /\ IF ~ok THEN Fail(p, ErrStorage)
          ELSE IF localAuth[call[p].user] = NoHandle THEN Fail(p, ErrNoLocalAuth)
          ELSE Goto(p, "F_GetSession", [loc[p] EXCEPT !.webID = localAuth[call[p].user]])
  /\ UNCHANGED <<dbVars, cfgVars, storeVars, ghostVars, nextChal, now, call>>

\* Mutant: Finish handing an absent session state to the verifier.
FinishGetSession_NoAbsenceCheck(p) ==
  /\ pc[p] = "F_GetSession"
  /\ \E ok \in BOOLEAN :
       /\ calls' = Logged(p, "GetWebauthnSessionData", ok)
       /\ IF ~ok THEN Fail(p, ErrStorage)
          ELSE Goto(p, "F_ValidateLogin",
                    [loc[p] EXCEPT !.sd = sessions[<<call[p].user, loginSessionID>>]])
  /\ UNCHANGED <<dbVars, cfgVars, storeVars, ghostVars, nextChal, now, call>>

\* Finish, lines 209-215: f.Identity.GetWebauthnSessionData.
FinishGetSession(p) ==
  /\ pc[p] = "F_GetSession"
  /\ \E ok \in BOOLEAN :
       /\ calls' = Logged(p, "GetWebauthnSessionData", ok)
       /\ IF ~ok THEN Fail(p, ErrStorage)
          ELSE IF sessions[<<call[p].user, loginSessionID>>] = NoSession THEN Fail(p, ErrNoSession)
          ELSE Goto(p, "F_ValidateLogin",
                    [loc[p] EXCEPT !.sd = sessions[<<call[p].user, loginSessionID>>]])
  /\ UNCHANGED <<dbVars, cfgVars, storeVars, ghostVars, nextChal, now, call>>

\* Mutant: Finish stamping and storing the device before it looks at the
\* verifier's verdict.
FinishValidateLogin_StampFirst(p) ==
  /\ pc[p] = "F_ValidateLogin"
  /\ LET dev == loc[p].dev
         rpID == FinishRPID(dev)
         resp == call[p].resp
         stamped == setCounterAndTimestamps(dev, SignCount(dev, resp), now)
     IN /\ devices' = [devices EXCEPT ![call[p].user] = UpsertMFADevice(@, stamped)]
        /\ IF ~ValidateLogin(dev, loc[p].webID, loc[p].sd, resp, rpID)
           THEN /\ calls' = Logged(p, "ValidateLogin", FALSE)
                /\ Return(p, [NoRet EXCEPT !.err = ErrVerification, !.rpID = rpID,
                                                 !.origin = resp.origin])
           ELSE /\ calls' = Logged(p, "ValidateLogin", TRUE)
                /\ pc' = [pc EXCEPT ![p] = "F_UpsertMFADevice"]
                /\ loc' = [loc EXCEPT ![p].dev = stamped]
                /\ ret' = [ret EXCEPT ![p] = [NoRet EXCEPT !.rpID = rpID,
                                                           !.origin = resp.origin,
                                                           !.warned = CloneWarning(dev, resp)]]
  /\ UNCHANGED <<dbVars, cfgVars, sessions, localAuth, ghostVars, nextChal, now, call>>

\* Mutant: Finish rejecting a response that raises the clone warning.
FinishValidateLogin_CloneFatal(p) ==
  /\ pc[p] = "F_ValidateLogin"
  /\ LET dev == loc[p].dev
         rpID == FinishRPID(dev)
         resp == call[p].resp
     IN \E webOK \in BOOLEAN :
          IF ~webOK THEN calls' = calls /\ Fail(p, ErrWebAuthnConfig)
          ELSE IF ~ValidateLogin(dev, loc[p].webID, loc[p].sd, resp, rpID)
               THEN /\ calls' = Logged(p, "ValidateLogin", FALSE)
                    /\ Return(p, [NoRet EXCEPT !.err = ErrVerification, !.rpID = rpID,
                                                 !.origin = resp.origin])
          ELSE IF CloneWarning(dev, resp)
               THEN /\ calls' = Logged(p, "ValidateLogin", TRUE)
                    /\ Return(p, [NoRet EXCEPT !.err = ErrVerification, !.rpID = rpID,
                                                 !.origin = resp.origin, !.warned = TRUE])
          ELSE /\ calls' = Logged(p, "ValidateLogin", TRUE)
               /\ pc' = [pc EXCEPT ![p] = "F_UpsertMFADevice"]
               /\ loc' = [loc EXCEPT ![p].dev =
                            setCounterAndTimestamps(dev, SignCount(dev, resp), now)]
               /\ ret' = [ret EXCEPT ![p] = [NoRet EXCEPT !.rpID = rpID,
                                                          !.origin = resp.origin]]
  /\ UNCHANGED <<dbVars, cfgVars, storeVars, ghostVars, nextChal, now, call>>

\* Finish, lines 217-235: newWebAuthn, web.ValidateLogin, the clone warning and
\* setCounterAndTimestamps on the matched device.
FinishValidateLogin(p) ==
  /\ pc[p] = "F_ValidateLogin"
  /\ LET dev == loc[p].dev
         rpID == FinishRPID(dev)
         resp == call[p].resp
     IN \E webOK \in BOOLEAN :
          IF ~webOK THEN calls' = calls /\ Fail(p, ErrWebAuthnConfig)
          ELSE IF ~ValidateLogin(dev, loc[p].webID, loc[p].sd, resp, rpID)
               THEN /\ calls' = Logged(p, "ValidateLogin", FALSE)
                    /\ Return(p, [NoRet EXCEPT !.err = ErrVerification, !.rpID = rpID,
                                                 !.origin = resp.origin])
          ELSE IF ~setCounterAndTimestampsOK(dev)
               THEN /\ calls' = Logged(p, "ValidateLogin", TRUE)
                    /\ Return(p, [NoRet EXCEPT !.err = ErrDeviceType, !.rpID = rpID,
                                                 !.origin = resp.origin])
          ELSE /\ calls' = Logged(p, "ValidateLogin", TRUE)
               /\ pc' = [pc EXCEPT ![p] = "F_UpsertMFADevice"]
               /\ loc' = [loc EXCEPT ![p].dev =
                            setCounterAndTimestamps(dev, SignCount(dev, resp), now)]
               /\ ret' = [ret EXCEPT ![p] = [NoRet EXCEPT !.rpID = rpID,
                                                          !.origin = resp.origin,
                                                          !.warned = CloneWarning(dev, resp)]]
  /\ UNCHANGED <<dbVars, cfgVars, storeVars, ghostVars, nextChal, now, call>>

\* Mutant: Finish deleting the session state when UpsertMFADevice fails.
FinishUpsertMFADevice_DeleteOnFailure(p) ==
  /\ pc[p] = "F_UpsertMFADevice"
  /\ \E ok \in BOOLEAN :
       /\ calls' = Logged(p, "UpsertMFADevice", ok)
       /\ IF ok
          THEN /\ devices' = [devices EXCEPT ![call[p].user] = UpsertMFADevice(@, loc[p].dev)]
               /\ sessions' = sessions
               /\ Goto(p, "F_DeleteSession", loc[p])
          ELSE /\ devices' = devices
               /\ sessions' = [sessions EXCEPT ![<<call[p].user, loginSessionID>>] = NoSession]
               /\ Return(p, [ret[p] EXCEPT !.err = ErrStorage])
  /\ UNCHANGED <<dbVars, cfgVars, localAuth, ghostVars, nextChal, now, call>>

\* Finish, lines 236-238: f.Identity.UpsertMFADevice.
FinishUpsertMFADevice(p) ==
  /\ pc[p] = "F_UpsertMFADevice"
  /\ \E ok \in BOOLEAN :
       /\ calls' = Logged(p, "UpsertMFADevice", ok)
       /\ IF ok
          THEN /\ devices' = [devices EXCEPT ![call[p].user] = UpsertMFADevice(@, loc[p].dev)]
               /\ Goto(p, "F_DeleteSession", loc[p])
          ELSE /\ devices' = devices
               /\ Return(p, [ret[p] EXCEPT !.err = ErrStorage])
  /\ UNCHANGED <<dbVars, cfgVars, sessions, localAuth, ghostVars, nextChal, now, call>>

\* Mutant: Finish returning the device without deleting the session state.
FinishDeleteSession_Skip(p) ==
  /\ pc[p] = "F_DeleteSession"
  /\ LET c == loc[p].sd.challenge
     IN /\ calls' = Logged(p, "DeleteWebauthnSessionData", TRUE)
        /\ okCount' = [okCount EXCEPT ![c] = IF @ < 2 THEN @ + 1 ELSE @]
        /\ Return(p, [ret[p] EXCEPT !.dev = loc[p].dev])
  /\ UNCHANGED <<dbVars, cfgVars, storeVars, delFailed, stored, prevOK, nextChal, now, call>>

\* Mutant: Finish returning the error of a session delete that fails.
FinishDeleteSession_Fatal(p) ==
  /\ pc[p] = "F_DeleteSession"
  /\ LET c == loc[p].sd.challenge
     IN \E ok \in BOOLEAN :
          /\ calls' = Logged(p, "DeleteWebauthnSessionData", ok)
          /\ sessions' = IF ok THEN [sessions EXCEPT ![<<call[p].user, loginSessionID>>] = NoSession]
                         ELSE sessions
          /\ delFailed' = IF ok THEN delFailed ELSE delFailed \cup {c}
          /\ okCount' = [okCount EXCEPT ![c] = IF ok /\ @ < 2 THEN @ + 1 ELSE @]
          /\ IF ok THEN Return(p, [ret[p] EXCEPT !.dev = loc[p].dev])
             ELSE Return(p, [ret[p] EXCEPT !.err = ErrStorage])
  /\ UNCHANGED <<dbVars, cfgVars, devices, localAuth, stored, prevOK, nextChal, now, call>>

\* Finish, lines 240-246: f.Identity.DeleteWebauthnSessionData (a failure is
\* only logged) and the return of the device.
FinishDeleteSession(p) ==
  /\ pc[p] = "F_DeleteSession"
  /\ LET c == loc[p].sd.challenge
     IN \E ok \in BOOLEAN :
          /\ calls' = Logged(p, "DeleteWebauthnSessionData", ok)
          /\ sessions' = IF ok THEN [sessions EXCEPT ![<<call[p].user, loginSessionID>>] = NoSession]
                         ELSE sessions
          /\ delFailed' = IF ok THEN delFailed ELSE delFailed \cup {c}
          /\ okCount' = [okCount EXCEPT ![c] = IF @ < 2 THEN @ + 1 ELSE @]
          /\ Return(p, [ret[p] EXCEPT !.dev = loc[p].dev])
  /\ UNCHANGED <<dbVars, cfgVars, devices, localAuth, stored, prevOK, nextChal, now, call>>

\* The caller takes the result of its call and is free to call again.
TakeResult(p) ==
  /\ pc[p] = "done"
  /\ pc' = [pc EXCEPT ![p] = "idle"]
  /\ call' = [call EXCEPT ![p] = NoCall]
  /\ ret' = [ret EXCEPT ![p] = NoRet]
  /\ calls' = [calls EXCEPT ![p] = <<>>]
  /\ prevOK' = [prevOK EXCEPT ![p] =
                  IF /\ call[p].op = "Finish"
                     /\ ret[p].err = "none"
                     /\ calls[p][Len(calls[p])].ok
                  THEN [set |-> TRUE, user |-> call[p].user, resp |-> call[p].resp]
                  ELSE NoPrev]
  /\ UNCHANGED <<dbVars, cfgVars, storeVars, okCount, delFailed, stored, nextChal, now, loc>>

\* The caller repeats, with the same arguments, a Finish that returned a
\* storage error: lines 154-175 again.
RetryFinish(p) ==
  /\ pc[p] = "done"
  /\ call[p].op = "Finish"
  /\ ret[p].err = ErrStorage
  /\ call' = [call EXCEPT ![p] =
                [@ EXCEPT !.start = now, !.before = Stores, !.replay = FALSE,
                          !.retry = IF [fn |-> "ValidateLogin", ok |-> TRUE] \in SeqToSet(calls[p])
                                    THEN "verified" ELSE "storage"]]
  /\ calls' = [calls EXCEPT ![p] = <<>>]
  /\ prevOK' = [prevOK EXCEPT ![p] = NoPrev]
  /\ IF disabled THEN Fail(p, ErrDisabled)
     ELSE IF call[p].user = "" THEN Fail(p, ErrUserRequired)
     ELSE IF call[p].resp.kind = "nil" THEN Fail(p, ErrRespRequired)
     ELSE IF call[p].resp.kind = "malformed" THEN Fail(p, ErrParse)
     ELSE IF ~validateOrigin(call[p].resp.origin, RPID) THEN Fail(p, ErrOrigin)
     ELSE /\ pc' = [pc EXCEPT ![p] = "F_GetMFADevices"]
          /\ ret' = [ret EXCEPT ![p] = NoRet]
          /\ loc' = [loc EXCEPT ![p] = NoLoc]
  /\ UNCHANGED <<dbVars, cfgVars, storeVars, okCount, delFailed, stored, nextChal, now>>

\* The caller repeats, for the same user, a Begin that returned an error:
\* lines 98-104 again.
RetryBegin(p) ==
  /\ pc[p] = "done"
  /\ call[p].op = "Begin"
  /\ ret[p].err # "none"
  /\ call' = [call EXCEPT ![p] =
                [@ EXCEPT !.start = now, !.before = Stores, !.retry = "failed"]]
  /\ calls' = [calls EXCEPT ![p] = <<>>]
  /\ prevOK' = [prevOK EXCEPT ![p] = NoPrev]
  /\ IF disabled THEN Fail(p, ErrDisabled)
     ELSE IF call[p].user = "" THEN Fail(p, ErrUserRequired)
     ELSE /\ nextChal + PendingChallenges <= MaxChallenges
          /\ pc' = [pc EXCEPT ![p] = "B_GetMFADevices"]
          /\ ret' = [ret EXCEPT ![p] = NoRet]
          /\ loc' = [loc EXCEPT ![p] = NoLoc]
  /\ UNCHANGED <<dbVars, cfgVars, storeVars, okCount, delFailed, stored, nextChal, now>>

\* time passes
Tick ==
  /\ now < MaxTime
  /\ now' = now + 1
  /\ UNCHANGED <<dbVars, cfgVars, storeVars, ghostVars, nextChal, pc, call, loc, ret, calls>>

\* One step of process p, its calls' arguments drawn from users U and responses R.
Step(p, U, R) ==
  \/ BeginStart(p, U)
  \/ BeginGetMFADevices(p)
  \/ BeginGetUserID(p)
  \/ BeginLogin(p)
  \/ BeginUpsertSession(p)
  \/ FinishStart(p, U, R)
  \/ FinishGetMFADevices(p)
  \/ FinishGetLocalAuth(p)
  \/ FinishGetSession(p)
  \/ FinishValidateLogin(p)
  \/ FinishUpsertMFADevice(p)
  \/ FinishDeleteSession(p)
  \/ TakeResult(p)

\* One caller uses the flow: calls run one after the other, with any arguments.
Next == Step(1, Users, Responses) \/ Tick

Spec == Init /\ [][Next]_vars

\* Callers use the flow concurrently for one user; their responses are those
\* of the user's Webauthn authenticator to the challenges drawn so far.
ConcUsers == {"alice"}
ConcResponses ==
  {r \in OkResponses :
     /\ validateOrigin(r.origin, RPID)
     /\ r.rawID = "cred1"
     /\ r.signedFor = RPID
     /\ r.challenge > 0}

ConcInit == InitWith(FALSE, "set")

ConcNext == \E p \in Procs : Step(p, ConcUsers, ConcResponses)

ConcSpec == ConcInit /\ [][ConcNext]_vars

\* One caller uses the flow for one user and repeats the calls that fail; its
\* responses are those of the user's authenticators to the challenges drawn.
RetryUsers == {"alice"}
RetryResponses ==
  {r \in OkResponses :
     /\ validateOrigin(r.origin, RPID)
     /\ r.rawID \in {"kh1", "cred1"}
     /\ r.signedFor \in {RPID, AppID}
     /\ r.challenge > 0}

RetryInit == InitWith(FALSE, "set")

RetryNext == Step(1, RetryUsers, RetryResponses) \/ RetryFinish(1) \/ RetryBegin(1)

RetrySpec == RetryInit /\ [][RetryNext]_vars

\* One caller uses the flow for a user whose registered devices are any list of
\* up to two devices of any kind, with key handles and credential ids that are
\* byte strings, one a prefix of the other.
ByteIDs == {<<1>>, <<1, 2>>}
FindDeviceLists ==
  LET Dev(n) == [name : {n}, kind : {"u2f", "webauthn", "totp"}, id : ByteIDs,
                 counter : {0}, lastUsed : {0}]
  IN {<<>>} \cup {<<d>> : d \in Dev("d1")}
            \cup {<<d, e>> : d \in Dev("d1"), e \in Dev("d2")}
FindUsers == {"alice"}
FindResponses ==
  [kind : {"ok"}, rawID : ByteIDs, origin : {<<"login", "example", "com">>},
   challenge : 1..MaxChallenges, signedFor : {RPID, AppID}, counter : {1}]

FindInit ==
  \E devs \in FindDeviceLists :
    InitFrom(FALSE, "set", [u \in Users |-> IF u = "alice" THEN devs ELSE <<>>]) /\ DbIdle

FindNext == Step(1, FindUsers, FindResponses)

FindSpec == FindInit /\ [][FindNext]_vars

\* ------------------------------------------------------ selector matching

\* Label keys and the value lists of a selector: an exact value, the wildcard,
\* or an expression that does not compile.
Wildcard == "*"
LabelKeys == {"env", Wildcard}
SelectorValues == {<<"prod">>, <<Wildcard>>, <<"(">>}
ResourceValues == {"prod", "dev"}

\* The label maps a selector and a resource are drawn from.
MatchLabelMaps == UNION {[D -> SelectorValues] : D \in SUBSET LabelKeys}
ResourceLabelMaps == UNION {[D -> ResourceValues] : D \in SUBSET {"env"}}

\* utils.SliceMatchesRegex(targetVal, selectorValues): the first expression that
\* fails to compile is an error, the first that matches ends the search.
RECURSIVE SliceMatchesRegex(_, _)
SliceMatchesRegex(targetVal, selectorValues) ==
  IF selectorValues = <<>> THEN [match |-> FALSE, err |-> FALSE]
  ELSE IF Head(selectorValues) = "(" THEN [match |-> FALSE, err |-> TRUE]
  ELSE IF Head(selectorValues) = targetVal THEN [match |-> TRUE, err |-> FALSE]
  ELSE SliceMatchesRegex(targetVal, Tail(selectorValues))

\* MatchLabels' verdict on one key of the selector.
MatchKey(selector, target, key) ==
  IF key \notin DOMAIN target THEN [match |-> FALSE, err |-> FALSE]
  ELSE IF \E k \in 1..Len(selector[key]) : selector[key][k] = Wildcard
  THEN [match |-> TRUE, err |-> FALSE]
  ELSE SliceMatchesRegex(target[key], selector[key])

\* services.MatchLabels(selector, target): the results it can return.  An empty
\* selector matches nothing, "*": ["*"] matches everything, otherwise every key
\* of the selector must be a label of the target with a matching value.  The
\* keys are visited in map order, so the first failing key (any of them)
\* decides between "no match" and an error.
MatchLabels(selector, target) ==
  LET failing == {key \in DOMAIN selector : ~MatchKey(selector, target, key).match}
  IN IF DOMAIN selector = {} THEN {[match |-> FALSE, err |-> FALSE]}
     ELSE IF Wildcard \in DOMAIN selector /\ selector[Wildcard] = <<Wildcard>>
     THEN {[match |-> TRUE, err |-> FALSE]}
     ELSE IF failing = {} THEN {[match |-> TRUE, err |-> FALSE]}
     ELSE {MatchKey(selector, target, key) : key \in failing}

\* services.MatchResourceLabels(selectors, resource): the values it can return.
\* The loop returns false at the first selector with empty MatchLabels and at
\* the first error, true at the first match, false after the last selector.
RECURSIVE MatchResourceLabels(_, _)
MatchResourceLabels(sels, resource) ==
  IF sels = <<>> THEN {FALSE}
  ELSE IF DOMAIN Head(sels).MatchLabels = {} THEN {FALSE}
  ELSE UNION {IF r.err THEN {FALSE}
              ELSE IF r.match THEN {TRUE}
              ELSE MatchResourceLabels(Tail(sels), resource) :
              r \in MatchLabels(Head(sels).MatchLabels, resource.labels)}

\* Server.matcher(resource): RDS and Redshift databases always match, the
\* others are matched against s.cfg.Selectors.
matcher(resource) ==
  IF resource.cloud THEN {TRUE} ELSE MatchResourceLabels(selectors, resource)

\* A call of services.MatchResourceLabels(s.cfg.Selectors, resource).
CallMatchResourceLabels ==
  /\ \E resource \in {[labels |-> l, cloud |-> FALSE] : l \in ResourceLabelMaps} :
       /\ mResource' = resource
       /\ \E value \in MatchResourceLabels(selectors, resource) :
            mResult' = [fn |-> "MatchResourceLabels", value |-> value]
  /\ UNCHANGED <<loginVars, selectors, ctxDone, watcherVars, reconVars>>

\* A call of Server.matcher(resource) by the reconciler.
CallMatcher ==
  /\ \E resource \in {[labels |-> l, cloud |-> b] : l \in ResourceLabelMaps, b \in BOOLEAN} :
       /\ mResource' = resource
       /\ \E value \in matcher(resource) :
            mResult' = [fn |-> "matcher", value |-> value]
  /\ UNCHANGED <<loginVars, selectors, ctxDone, watcherVars, reconVars>>

\* The database service configured with up to MaxSelectors selectors; a
\* selector without MatchLabels is one that only selects cloud databases.
MatchSelectors ==
  {[MatchLabels |-> m,
    MatchRDS |-> [Regions |-> <<"us-east-1">>,
                  Tags |-> IF DOMAIN m = {} THEN [k \in {Wildcard} |-> <<Wildcard>>]
                           ELSE NoLabels]] : m \in MatchLabelMaps}

MatchSelectorLists ==
  UNION {[1..n -> MatchSelectors] : n \in 0..MaxSelectors}

MatchInit ==
  /\ InitFrom(FALSE, "nil", InitDevices)
  /\ selectors \in MatchSelectorLists
  /\ ctxDone = FALSE
  /\ MatchIdle /\ WatcherIdle /\ ReconIdle

MatchNext == CallMatchResourceLabels \/ CallMatcher

MatchSpec == MatchInit /\ [][MatchNext]_vars

\* -------------------------------------------------- cloud databases watcher

ErrMissingSelectors == "BadParameter: missing parameter Selectors"
ErrNoCloudSelectors == "NotFound: no cloud selectors"
ErrCloudClient == "GetAWSRDSClient failed"
ErrFetcher == "newRDSFetcher failed"

\* trace.IsNotFound(err)
IsNotFound(err) == err = ErrNoCloudSelectors

\* WatcherConfig.CheckAndSetDefaults: the error it returns.
CheckAndSetDefaults(sels) == IF Len(sels) = 0 THEN ErrMissingSelectors ELSE "none"

\* The fetchers makeFetchers appends for one selector: one per region when
\* the selector has RDS tags.
RECURSIVE RegionFetchers(_, _)
RegionFetchers(tags, regions) ==
  IF regions = <<>> THEN <<>>
  ELSE <<[Labels |-> tags, Region |-> Head(regions)]>> \o RegionFetchers(tags, Tail(regions))

\* makeFetchers(clients, selectors) when every client and fetcher is created.
RECURSIVE makeFetchers(_)
makeFetchers(sels) ==
  IF sels = <<>> THEN <<>>
  ELSE (IF DOMAIN Head(sels).MatchRDS.Tags # {}
        THEN RegionFetchers(Head(sels).MatchRDS.Tags, Head(sels).MatchRDS.Regions)
        ELSE <<>>) \o makeFetchers(Tail(sels))

\* NewWatcher(ctx, config): the results it can have.  Creating a client or a
\* fetcher can fail only where makeFetchers creates one.
NewWatcher(sels) ==
  IF CheckAndSetDefaults(sels) # "none"
  THEN {[err |-> CheckAndSetDefaults(sels), fetchers |-> <<>>]}
  ELSE IF makeFetchers(sels) = <<>>
  THEN {[err |-> ErrNoCloudSelectors, fetchers |-> <<>>]}
  ELSE {[err |-> ErrCloudClient, fetchers |-> <<>>],
        [err |-> ErrFetcher, fetchers |-> <<>>],
        [err |-> "none", fetchers |-> makeFetchers(sels)]}

\* Server.startCloudDatabasesWatcher: NewWatcher, then either the return of
\* its error (nil for a not-found error) or the start of Watcher.Start and of
\* the goroutine that receives from DatabasesC.
startCloudDatabasesWatcher ==
  /\ scRet = "none"
  /\ \E r \in NewWatcher(selectors) :
       IF r.err # "none"
       THEN /\ scRet' = IF IsNotFound(r.err) THEN "nil" ELSE r.err
            /\ UNCHANGED <<fetchers, wPc, rPc>>
       ELSE /\ scRet' = "nil"
            /\ fetchers' = r.fetchers
            /\ wPc' = "start"
            /\ rPc' = [rPc EXCEPT !["cloud"] = "select"]
  /\ UNCHANGED <<loginVars, selectors, ctxDone, matchVars, wLoc, tick, wLog,
                 rHeld, rCap, reconcileCh, dynamicDatabases, cloudDatabases, rNextV, rRun>>

\* What Fetcher.Get of the k-th fetcher can return: an error, or the
\* databases it found (none, or its one database).
GetResults(k) ==
  {[err |-> TRUE, databases |-> <<>>],
   [err |-> FALSE, databases |-> <<>>],
   [err |-> FALSE, databases |-> <<k>>]}

\* fetchAndSend, line 120: var result.
EnterFetchAndSend == [idx |-> 1, result |-> <<>>, got |-> <<>>]

\* fetchAndSend's position with the loop at the idx-th fetcher: the next Get,
\* or the select that sends once the range is exhausted.
LoopAt(idx) == IF idx <= Len(fetchers) THEN "fetch" ELSE "send"

\* Watcher.Start, lines 103-106: the ticker is created and the first
\* fetchAndSend begins.
StartWatcher ==
  /\ wPc = "start"
  /\ wLoc' = EnterFetchAndSend
  /\ wPc' = LoopAt(1)
  /\ wLog' = [wLog EXCEPT !.rounds = @ + 1]
  /\ UNCHANGED <<loginVars, selectors, ctxDone, matchVars, scRet, fetchers, tick, reconVars>>

\* Mutant: fetchAndSend returning at the first fetcher error.
FetchGet_AbortOnError ==
  /\ wPc = "fetch"
  /\ \E r \in GetResults(wLoc.idx) :
       /\ wLoc' = [idx |-> wLoc.idx + 1,
                   result |-> IF r.err THEN wLoc.result ELSE wLoc.result \o r.databases,
                   got |-> Append(wLoc.got, r)]
       /\ wPc' = IF r.err THEN "select" ELSE LoopAt(wLoc.idx + 1)
  /\ UNCHANGED <<loginVars, selectors, ctxDone, matchVars, scRet, fetchers, tick, wLog, reconVars>>

\* fetchAndSend, lines 121-128: Get of one fetcher.  An error is logged, a
\* result is appended.
FetchGet ==
  /\ wPc = "fetch"
  /\ \E r \in GetResults(wLoc.idx) :
       wLoc' = [idx |-> wLoc.idx + 1,
                result |-> IF r.err THEN wLoc.result ELSE wLoc.result \o r.databases,
                got |-> Append(wLoc.got, r)]
  /\ wPc' = LoopAt(wLoc.idx + 1)
  /\ UNCHANGED <<loginVars, selectors, ctxDone, matchVars, scRet, fetchers, tick, wLog, reconVars>>

\* fetchAndSend, line 130: a receiver takes the batch from databasesC
\* (unbuffered, so the send and the receive are one step).
SendBatch ==
  /\ wPc = "send"
  /\ wLog' = [wLog EXCEPT !.sent = @ + 1, !.batch = wLoc.result, !.got = wLoc.got]
  /\ wLoc' = NoWLoc
  /\ wPc' = "select"
  /\ UNCHANGED <<loginVars, selectors, ctxDone, matchVars, scRet, fetchers, tick, reconVars>>

\* Mutant: fetchAndSend sending without the ctx.Done case.
SendAbandoned_Never ==
  /\ wPc = "send" /\ ctxDone
  /\ wPc' = "send"
  /\ UNCHANGED <<loginVars, selectors, ctxDone, matchVars, scRet, fetchers, wLoc, tick, wLog, reconVars>>

\* fetchAndSend, line 131: the context is done, the batch is dropped.
SendAbandoned ==
  /\ wPc = "send" /\ ctxDone
  /\ wLog' = [wLog EXCEPT !.abandoned = @ + 1]
  /\ wLoc' = NoWLoc
  /\ wPc' = "select"
  /\ UNCHANGED <<loginVars, selectors, ctxDone, matchVars, scRet, fetchers, tick, reconVars>>

\* Watcher.Start, lines 109-110: a tick is received, the next fetchAndSend begins.
SelectTick ==
  /\ wPc = "select" /\ tick
  /\ tick' = FALSE
  /\ wLoc' = EnterFetchAndSend
  /\ wPc' = LoopAt(1)
  /\ wLog' = [wLog EXCEPT !.rounds = @ + 1, !.consumed = @ + 1]
  /\ UNCHANGED <<loginVars, selectors, ctxDone, matchVars, scRet, fetchers, reconVars>>

\* Watcher.Start, lines 111-113 and 104: the context is done, Start returns
\* and the deferred ticker.Stop runs.
SelectDone ==
  /\ wPc = "select" /\ ctxDone
  /\ wPc' = "returned"
  /\ tick' = FALSE
  /\ UNCHANGED <<loginVars, selectors, ctxDone, matchVars, scRet, fetchers, wLoc, wLog, reconVars>>

\* The ticker of Watcher.Start fires: ticker.C holds at most one tick.
TickerFires ==
  /\ wPc \in {"fetch", "send", "select"}
  /\ ~tick
  /\ wLog.ticks < MaxTicks
  /\ tick' = TRUE
  /\ wLog' = [wLog EXCEPT !.ticks = @ + 1]
  /\ UNCHANGED <<loginVars, selectors, ctxDone, matchVars, scRet, fetchers, wPc, wLoc, reconVars>>

\* The context the server and the watcher run under is cancelled.
Cancel ==
  /\ ~ctxDone
  /\ ctxDone' = TRUE
  /\ UNCHANGED <<loginVars, selectors, matchVars, watcherVars, reconVars>>

\* The selectors of the server configuration: with or without RDS tags, with
\* no, one or two regions.
WatcherSelectors ==
  {[MatchLabels |-> IF DOMAIN t = {} THEN [k \in {Wildcard} |-> <<Wildcard>>] ELSE NoLabels,
    MatchRDS |-> [Regions |-> r, Tags |-> t]] :
     r \in {<<>>, <<"us-east-1">>, <<"us-east-1", "us-west-2">>},
     t \in {NoLabels, [k \in {"env"} |-> <<"prod">>]}}

WatcherSelectorLists ==
  UNION {[1..n -> WatcherSelectors] : n \in 0..MaxSelectors}

WatcherInit ==
  /\ InitFrom(FALSE, "nil", InitDevices)
  /\ selectors \in WatcherSelectorLists
  /\ ctxDone = FALSE
  /\ MatchIdle /\ WatcherIdle /\ ReconIdle

WatcherNext ==
  \/ startCloudDatabasesWatcher
  \/ StartWatcher
  \/ FetchGet
  \/ SendBatch
  \/ SendAbandoned
  \/ SelectTick
  \/ SelectDone
  \/ TickerFires
  \/ Cancel

WatcherSpec == WatcherInit /\ [][WatcherNext]_vars

\* The scheduling of Watcher.Start: the goroutine keeps running and every
\* Fetcher.Get returns; a select whose ctx.Done case is ready again and again
\* takes it eventually (the runtime chooses among the ready cases at random).
\* No receiver is assumed: SendBatch and the ticker have no fairness.
WatcherFairness ==
  /\ WF_vars(StartWatcher)
  /\ WF_vars(FetchGet)
  /\ SF_vars(SendAbandoned)
  /\ SF_vars(SelectDone)

WatcherFairSpec == WatcherSpec /\ WatcherFairness

\* ------------------------------------------- reconciler and its watchers

\* s.cfg.Databases: the databases of the static configuration.
StaticDatabases == <<[src |-> "static", v |-> 0]>>

\* The v-th batch of databases a watcher delivers.
Batch(g, v) == <<[src |-> g, v |-> v]>>

\* s.dynamicDatabases / s.cloudDatabases: what goroutine g stores into.
StoredBy(g) == IF g = "dynamic" THEN dynamicDatabases ELSE cloudDatabases

\* Server.getReconcileDatabases (under s.mu.RLock).
getReconcileDatabases == StaticDatabases \o dynamicDatabases \o cloudDatabases

\* Watcher goroutine, lines 86 / 120: a batch arrives on the watcher's channel.
ReceiveBatch(g) ==
  /\ rPc[g] = "select"
  /\ rNextV[g] <= MaxBatches
  /\ rHeld' = [rHeld EXCEPT ![g] = Batch(g, rNextV[g])]
  /\ rNextV' = [rNextV EXCEPT ![g] = @ + 1]
  /\ rPc' = [rPc EXCEPT ![g] = "store"]
  /\ UNCHANGED <<loginVars, selectors, ctxDone, matchVars, watcherVars,
                 rCap, reconcileCh, dynamicDatabases, cloudDatabases, rRun>>

\* Mutant: the watcher goroutine going on to its signal without storing the batch.
StoreBatch_Skip(g) ==
  /\ rPc[g] = "store"
  /\ rPc' = [rPc EXCEPT ![g] = "signal"]
  /\ UNCHANGED <<loginVars, selectors, ctxDone, matchVars, watcherVars,
                 rHeld, rCap, reconcileCh, dynamicDatabases, cloudDatabases, rNextV, rRun>>

\* Watcher goroutine, lines 87 / 121: setDynamicDatabases / setCloudDatabases
\* (under s.mu.Lock).
StoreBatch(g) ==
  /\ rPc[g] = "store"
  /\ dynamicDatabases' = IF g = "dynamic" THEN rHeld[g] ELSE dynamicDatabases
  /\ cloudDatabases' = IF g = "cloud" THEN rHeld[g] ELSE cloudDatabases
  /\ rPc' = [rPc EXCEPT ![g] = "signal"]
  /\ UNCHANGED <<loginVars, selectors, ctxDone, matchVars, watcherVars,
                 rHeld, rCap, reconcileCh, rNextV, rRun>>

\* The signal a watcher goroutine sends for the batch it holds.
SignalOf(g) == [src |-> g, v |-> rHeld[g][1].v]

\* Watcher goroutine, lines 89 / 123: s.reconcileCh <- struct{}{} into a free
\* slot of the channel's buffer.
SendSignalBuffered(g) ==
  /\ rPc[g] = "signal"
  /\ Len(reconcileCh) < rCap
  /\ reconcileCh' = Append(reconcileCh, SignalOf(g))
  /\ rHeld' = [rHeld EXCEPT ![g] = <<>>]
  /\ rPc' = [rPc EXCEPT ![g] = "select"]
  /\ UNCHANGED <<loginVars, selectors, ctxDone, matchVars, watcherVars,
                 rCap, dynamicDatabases, cloudDatabases, rNextV, rRun>>

\* Watcher goroutine, lines 89 / 123, and reconciler, line 48: the signal is
\* handed to the reconciler waiting in its select (the only way through an
\* unbuffered channel, and the way through an empty buffer).
SendSignalDirect(g) ==
  /\ rPc[g] = "signal"
  /\ rPc["reconciler"] = "select"
  /\ reconcileCh = <<>>
  /\ rRun' = [rRun EXCEPT !.signal = SignalOf(g)]
  /\ rHeld' = [rHeld EXCEPT ![g] = <<>>]
  /\ rPc' = [rPc EXCEPT ![g] = "select", !["reconciler"] = "reconcile"]
  /\ UNCHANGED <<loginVars, selectors, ctxDone, matchVars, watcherVars,
                 rCap, reconcileCh, dynamicDatabases, cloudDatabases, rNextV>>

\* Watcher goroutine, lines 90-91 / 124-125: the context is done while the
\* signal is pending, the goroutine returns.
SignalDone(g) ==
  /\ rPc[g] = "signal" /\ ctxDone
  /\ rPc' = [rPc EXCEPT ![g] = "exited"]
  /\ UNCHANGED <<loginVars, selectors, ctxDone, matchVars, watcherVars,
                 rHeld, rCap, reconcileCh, dynamicDatabases, cloudDatabases, rNextV, rRun>>

\* Watcher goroutine, lines 93-94 / 127-128: the context is done, the goroutine returns.
WatcherDone(g) ==
  /\ rPc[g] = "select" /\ ctxDone
  /\ rPc' = [rPc EXCEPT ![g] = "exited"]
  /\ UNCHANGED <<loginVars, selectors, ctxDone, matchVars, watcherVars,
                 rHeld, rCap, reconcileCh, dynamicDatabases, cloudDatabases, rNextV, rRun>>

\* Reconciler, line 48: a buffered signal is received.
ReceiveSignal ==
  /\ rPc["reconciler"] = "select"
  /\ reconcileCh # <<>>
  /\ rRun' = [rRun EXCEPT !.signal = Head(reconcileCh)]
  /\ reconcileCh' = Tail(reconcileCh)
  /\ rPc' = [rPc EXCEPT !["reconciler"] = "reconcile"]
  /\ UNCHANGED <<loginVars, selectors, ctxDone, matchVars, watcherVars,
                 rHeld, rCap, dynamicDatabases, cloudDatabases, rNextV>>

\* Reconciler, line 49: s.getReconcileDatabases() is evaluated and Reconcile
\* is called with it.
CallReconcile ==
  /\ rPc["reconciler"] = "reconcile"
  /\ rRun' = [rRun EXCEPT !.input = getReconcileDatabases, !.runs = @ + 1]
  /\ rPc' = [rPc EXCEPT !["reconciler"] = "reconciling"]
  /\ UNCHANGED <<loginVars, selectors, ctxDone, matchVars, watcherVars,
                 rHeld, rCap, reconcileCh, dynamicDatabases, cloudDatabases, rNextV>>

\* Reconciler, lines 49-53: Reconcile returns (with or without an error) and
\* the loop goes back to its select.
ReconcileReturns ==
  /\ rPc["reconciler"] = "reconciling"
  /\ rPc' = [rPc EXCEPT !["reconciler"] = "select"]
  /\ UNCHANGED <<loginVars, selectors, ctxDone, matchVars, watcherVars,
                 rHeld, rCap, reconcileCh, dynamicDatabases, cloudDatabases, rNextV, rRun>>

\* Reconciler, lines 54-56: the context is done, the goroutine returns.
ReconcilerDone ==
  /\ rPc["reconciler"] = "select" /\ ctxDone
  /\ rPc' = [rPc EXCEPT !["reconciler"] = "exited"]
  /\ UNCHANGED <<loginVars, selectors, ctxDone, matchVars, watcherVars,
                 rHeld, rCap, reconcileCh, dynamicDatabases, cloudDatabases, rNextV, rRun>>

\* The server running with one selector: the reconciler loop and the dynamic
\* watcher goroutine are started, the cloud watcher goroutine is if the
\* selector yields a fetcher.  The capacity of s.reconcileCh is any up to
\* MaxChanCap (0: unbuffered).
ReconSelectorLists == {<<sel>> : sel \in WatcherSelectors}

ReconInit ==
  /\ InitFrom(FALSE, "nil", InitDevices)
  /\ selectors \in ReconSelectorLists
  /\ ctxDone = FALSE
  /\ MatchIdle
  /\ scRet = "nil"
  /\ fetchers = makeFetchers(selectors)
  /\ wPc = IF makeFetchers(selectors) = <<>> THEN "off" ELSE "start"
  /\ wLoc = NoWLoc /\ tick = FALSE /\ wLog = NoWLog
  /\ rPc = [g \in Goroutines |->
              IF g = "cloud" /\ makeFetchers(selectors) = <<>> THEN "off" ELSE "select"]
  /\ rHeld = [g \in Watchers |-> <<>>]
  /\ rCap \in 0..MaxChanCap
  /\ reconcileCh = <<>>
  /\ dynamicDatabases = <<>>
  /\ cloudDatabases = <<>>
  /\ rNextV = [g \in Watchers |-> 1]
  /\ rRun = NoRun

ReconNext ==
  \/ ReceiveBatch("dynamic") \/ ReceiveBatch("cloud")
  \/ StoreBatch("dynamic") \/ StoreBatch("cloud")
  \/ SendSignalBuffered("dynamic") \/ SendSignalBuffered("cloud")
  \/ SendSignalDirect("dynamic") \/ SendSignalDirect("cloud")
  \/ SignalDone("dynamic") \/ SignalDone("cloud")
  \/ WatcherDone("dynamic") \/ WatcherDone("cloud")
  \/ ReceiveSignal
  \/ CallReconcile
  \/ ReconcileReturns
  \/ ReconcilerDone
  \/ Cancel

ReconSpec == ReconInit /\ [][ReconNext]_vars

\* The scheduling of the three goroutines: each keeps running (storing a
\* batch and Reconcile return), and a select whose ctx.Done case is ready
\* again and again takes it eventually.  Batches arriving and signals passing
\* have no fairness.
ReconFairness ==
  /\ \A g \in Watchers :
       WF_vars(StoreBatch(g)) /\ SF_vars(SignalDone(g)) /\ SF_vars(WatcherDone(g))
  /\ WF_vars(CallReconcile)
  /\ WF_vars(ReconcileReturns)
  /\ SF_vars(ReconcilerDone)

ReconFairSpec == ReconSpec /\ ReconFairness

\* --------------------------------------------------------- claim vocabulary
Done(p, op) == pc[p] = "done" /\ call[p].op = op
SessionOf(u) == sessions[<<u, loginSessionID>>]
Last(s) == s[Len(s)]
AllCallsOK(p) == \A i \in 1..Len(calls[p]) : calls[p][i].ok
Called(p, fn) == \E i \in 1..Len(calls[p]) : calls[p][i].fn = fn
CalledOK(p, fn) == \E i \in 1..Len(calls[p]) : calls[p][i].fn = fn /\ calls[p][i].ok
StoresUntouched(p) == calls[p] = <<>> /\ Stores = call[p].before
\* The response passes Finish's own checks up to the device lookup.
WellFormed(p) ==
  /\ ~disabled
  /\ call[p].user # ""
  /\ call[p].resp.kind = "ok"
\* The device the response names, as it was stored when the call started.
MatchedIndex(p) == findDeviceByID(call[p].before.devices[call[p].user], call[p].resp.rawID)
DeviceBefore(p) == call[p].before.devices[call[p].user][MatchedIndex(p)]
\* The errors of the precondition switches.
RequestErrors == {ErrDisabled, ErrUserRequired, ErrRespRequired}
\* The session state stored for the caller's user when the call started.
SessionBefore(p) == call[p].before.sessions[<<call[p].user, loginSessionID>>]
\* The collaborator calls of a Finish that runs to its end, in order.
FinishCalls == <<"GetMFADevices", "GetWebauthnLocalAuth", "GetWebauthnSessionData",
                 "ValidateLogin", "UpsertMFADevice", "DeleteWebauthnSessionData">>
CallNames(p) == [i \in 1..Len(calls[p]) |-> calls[p][i].fn]
DeleteFailed(p) == [fn |-> "DeleteWebauthnSessionData", ok |-> FALSE] \in SeqToSet(calls[p])
\* No storage call of the Finish before its session delete failed, and
\* newWebAuthn accepted the configuration.
StorageWorked(p) ==
  /\ ret[p].err # ErrWebAuthnConfig
  /\ \A i \in 1..Len(calls[p]) :
       calls[p][i].fn \notin {"ValidateLogin", "DeleteWebauthnSessionData"} => calls[p][i].ok
\* The positions, in the list the call found stored, of the U2F and Webauthn
\* devices whose identifier is byte for byte the response's raw id.
EqualIDPositions(p) ==
  LET devs == call[p].before.devices[call[p].user]
      id == call[p].resp.rawID
  IN {i \in 1..Len(devs) :
        /\ devs[i].kind \in {"u2f", "webauthn"}
        /\ Len(devs[i].id) = Len(id)
        /\ \A k \in 1..Len(id) : devs[i].id[k] = id[k]}
FirstEqualID(p) ==
  call[p].before.devices[call[p].user]
    [CHOOSE i \in EqualIDPositions(p) : \A j \in EqualIDPositions(p) : i <= j]
RegisteredIDs(u) == SeqToSet(CredentialIDs(devices[u]))
MatchedDevice(p) ==
  devices[call[p].user][findDeviceByID(devices[call[p].user], call[p].resp.rawID)]

\* Whether MatchLabels reports a match of the selector with the resource.
SelectorMatches(selector, resource) ==
  MatchLabels(selector.MatchLabels, resource.labels) = {[match |-> TRUE, err |-> FALSE]}

\* Whether every expression of every selector compiles.
ExpressionsCompile(sels) ==
  \A i \in 1..Len(sels) : \A key \in DOMAIN sels[i].MatchLabels :
    \A k \in 1..Len(sels[i].MatchLabels[key]) : sels[i].MatchLabels[key][k] # "("

\* The concatenation, in order, of the databases of the Gets that succeeded.
RECURSIVE SuccessfulResults(_)
SuccessfulResults(got) ==
  IF got = <<>> THEN <<>>
  ELSE (IF Head(got).err THEN <<>> ELSE Head(got).databases) \o SuccessfulResults(Tail(got))

\* Whether got holds one outcome of Get per fetcher, in fetcher order.
OnePerFetcher(got) ==
  /\ Len(got) = Len(fetchers)
  /\ \A k \in 1..Len(got) : got[k] \in GetResults(k)

\* Watcher.Start is running (it has passed its first line and not returned).
WatcherRunning == wPc \in {"fetch", "send", "select"}

\* Whether the databases dbs hold the v-th batch of source src or a newer one.
IncludesBatch(dbs, src, v) ==
  \E k \in 1..Len(dbs) : dbs[k].src = src /\ dbs[k].v >= v

\* ------------------------------------------------------------------ claims

\* C1: in a sequential run a Finish that repeats the Finish before it, which
\* succeeded and deleted the session state, fails: with the not-found session
\* error unless one of its storage calls fails; and no challenge backs two
\* successful Finish calls unless a session delete failed.
C1_ReplayFails ==
  /\ \A c \in 1..MaxChallenges : okCount[c] >= 2 => c \in delFailed
  /\ \A p \in Procs :
       Done(p, "Finish") /\ call[p].replay =>
         /\ ret[p].err \in {ErrNoSession, ErrStorage}
         /\ ret[p].dev = NoDev
         /\ AllCallsOK(p) => ret[p].err = ErrNoSession

C1_Witness ==
  \E p \in Procs :
    /\ Done(p, "Finish") /\ call[p].replay
    /\ ret[p].err = ErrNoSession
    /\ okCount[call[p].resp.challenge] = 1

\* C2: in a sequential run the stored session state of a user is the one of the
\* last challenge Begin stored for that user, and a Finish succeeds only with a
\* response to that challenge: a response to a superseded challenge fails.
C2_SupersededChallengeFails ==
  /\ \A u \in Users :
       SessionOf(u) # NoSession =>
         stored[u] # <<>> /\ SessionOf(u).challenge = Last(stored[u])
  /\ \A p \in Procs :
       Done(p, "Finish") /\ ret[p].err = "none" =>
         /\ stored[call[p].user] # <<>>
         /\ call[p].resp.challenge = Last(stored[call[p].user])

C2_Witness ==
  \E p \in Procs :
    /\ Done(p, "Finish")
    /\ Len(stored[call[p].user]) = 2
    /\ call[p].resp.challenge = stored[call[p].user][1]
    /\ okCount[call[p].resp.challenge] = 0
    /\ call[p].resp.rawID = "cred1" /\ call[p].resp.signedFor = RPID
    /\ SessionOf(call[p].user).challenge = stored[call[p].user][2]
    /\ ret[p].err = ErrVerification

\* C3: with Finish calls running concurrently, at most one Finish succeeds
\* against a challenge (session deletes that fail apart).
C3_ConcurrentSingleUse ==
  \A c \in 1..MaxChallenges : okCount[c] <= 1 \/ c \in delFailed

C5_UnknownCredentialAlways ==
  \A p \in Procs :
    /\ Done(p, "Finish") /\ WellFormed(p)
    /\ call[p].resp.rawID \notin RegisteredIDs(call[p].user)
    => ret[p].err = ErrUnknownCredential /\ ret[p].dev = NoDev

\* C5 (amended): a Finish whose response names no registered credential always
\* fails and returns no device; its error is the unknown-credential error
\* exactly when the response's origin is acceptable and GetMFADevices succeeds,
\* the origin error or the storage error otherwise.
C5_UnknownCredentialFails ==
  \A p \in Procs :
    /\ Done(p, "Finish") /\ WellFormed(p)
    /\ call[p].resp.rawID \notin RegisteredIDs(call[p].user)
    => /\ ret[p].dev = NoDev
       /\ ret[p].err =
            IF ~validateOrigin(call[p].resp.origin, RPID) THEN ErrOrigin
            ELSE IF ~calls[p][1].ok THEN ErrStorage
            ELSE ErrUnknownCredential
       /\ Len(calls[p]) <= 1

C5_Witness ==
  \E p \in Procs :
    /\ Done(p, "Finish") /\ WellFormed(p)
    /\ call[p].user = "alice" /\ call[p].resp.rawID = "cred9"
    /\ ret[p].err = ErrUnknownCredential

\* C6: a Finish that matched a legacy (U2F) device, for a user that has a user
\* handle and with no storage call failing, fails with the configuration error
\* whenever no legacy application identity is configured (f.U2F nil, or its
\* AppID empty), and does not when one is configured.
C6_LegacyNeedsAppID ==
  \A p \in Procs :
    /\ Done(p, "Finish") /\ WellFormed(p)
    /\ validateOrigin(call[p].resp.origin, RPID)
    /\ CalledOK(p, "GetMFADevices") /\ AllCallsOK(p)
    /\ localAuth[call[p].user] # NoHandle
    /\ findDeviceByID(devices[call[p].user], call[p].resp.rawID) # 0
    /\ MatchedDevice(p).kind = "u2f"
    => IF u2f = "set" THEN ret[p].err # ErrU2FConfig ELSE ret[p].err = ErrU2FConfig

\* C7: a Finish whose response carries an origin that is not acceptable for the
\* RPID fails with the origin error, without any collaborator call and with the
\* stores as they were.
C7_OriginBinding ==
  \A p \in Procs :
    /\ Done(p, "Finish") /\ WellFormed(p)
    /\ ~validateOrigin(call[p].resp.origin, RPID)
    => /\ ret[p].err = ErrOrigin
       /\ ret[p].dev = NoDev
       /\ StoresUntouched(p)

C7_Witness ==
  \E p \in Procs :
    /\ Done(p, "Finish") /\ WellFormed(p)
    /\ call[p].resp.origin = <<"evil", "example">>
    /\ call[p].resp.rawID = "cred1" /\ call[p].resp.signedFor = RPID
    /\ SessionOf(call[p].user) # NoSession
    /\ call[p].resp.challenge = SessionOf(call[p].user).challenge
    /\ ret[p].err = ErrOrigin

\* C8: a Begin with the protocol disabled or with an empty user fails with a
\* BadParameter error, without any collaborator call and with the stores as
\* they were.
C8_BeginPreconditions ==
  \A p \in Procs :
    Done(p, "Begin") /\ (disabled \/ call[p].user = "") =>
      /\ ret[p].err = IF disabled THEN ErrDisabled ELSE ErrUserRequired
      /\ ret[p].assertion = NoAssertion
      /\ StoresUntouched(p)

C8_Witness ==
  \E p \in Procs :
    /\ Done(p, "Begin") /\ ~disabled /\ call[p].user = ""
    /\ ret[p].err = ErrUserRequired

\* C9: a Finish with the protocol disabled, an empty user or a nil response
\* fails with the BadParameter error of the first of these that holds, without
\* any collaborator call and with the stores as they were.
C9_FinishPreconditions ==
  \A p \in Procs :
    Done(p, "Finish") /\ (disabled \/ call[p].user = "" \/ call[p].resp.kind = "nil") =>
      /\ ret[p].err = IF disabled THEN ErrDisabled
                      ELSE IF call[p].user = "" THEN ErrUserRequired
                      ELSE ErrRespRequired
      /\ ret[p].dev = NoDev
      /\ StoresUntouched(p)

C9_Witness ==
  \E p \in Procs :
    /\ Done(p, "Finish") /\ ~disabled
    /\ call[p].user = "" /\ call[p].resp.kind = "nil"
    /\ ret[p].err = ErrUserRequired

C11_ReturnedDeviceUpdated ==
  \A p \in Procs :
    Done(p, "Finish") /\ ret[p].err = "none" =>
      /\ MatchedIndex(p) # 0
      /\ ret[p].dev = [DeviceBefore(p) EXCEPT
                         !.counter = SignCount(DeviceBefore(p), call[p].resp),
                         !.lastUsed = ret[p].dev.lastUsed]
      /\ ret[p].dev.kind \in {"u2f", "webauthn"}
      /\ ret[p].dev.lastUsed >= call[p].start
      /\ ret[p].dev.lastUsed <= now
      /\ CalledOK(p, "UpsertMFADevice")
      /\ devices[call[p].user] =
           [call[p].before.devices[call[p].user] EXCEPT ![MatchedIndex(p)] = ret[p].dev]

C11_Witness ==
  \E p \in Procs :
    /\ Done(p, "Finish") /\ ret[p].err = "none"
    /\ ret[p].dev.kind = "u2f"
    /\ DeviceBefore(p).counter = 0 /\ ret[p].dev.counter = 1
    /\ call[p].start = 1 /\ ret[p].dev.lastUsed = 2

\* C12: after a Finish that ran the verifier on the response, whether it
\* succeeded or failed, and whose session delete did not fail, no session state
\* is stored for the user.
C12_SessionDeletedOnEveryPath ==
  \A p \in Procs :
    /\ Done(p, "Finish") /\ Called(p, "ValidateLogin")
    /\ [fn |-> "DeleteWebauthnSessionData", ok |-> FALSE] \notin SeqToSet(calls[p])
    => SessionOf(call[p].user) = NoSession

\* C13: with Begin and Finish calls of one user running concurrently, the
\* stored session state is the one of the last UpsertWebauthnSessionData for
\* the user; and a Finish that started when the last writer's state was stored
\* succeeds only with a response to the last writer's challenge, so a response
\* to a challenge written earlier fails.
C13_LastWriterWins ==
  /\ \A u \in Users :
       SessionOf(u) # NoSession =>
         /\ stored[u] # <<>>
         /\ SessionOf(u).challenge = Last(stored[u])
         /\ \A i \in 1..(Len(stored[u]) - 1) : stored[u][i] # SessionOf(u).challenge
  /\ \A p \in Procs :
       /\ Done(p, "Finish") /\ ret[p].err = "none"
       /\ stored[call[p].user] # <<>>
       /\ call[p].before.sessions[<<call[p].user, loginSessionID>>].challenge
            = Last(stored[call[p].user])
       => call[p].resp.challenge = Last(stored[call[p].user])

\* Two Begin calls ran concurrently (the challenge drawn second was written
\* first); afterwards the response to the last writer's challenge succeeded and
\* the response to the other challenge failed.
C13_Witness ==
  \E p, q \in Procs :
    /\ stored["alice"] = <<2, 1>>
    /\ Done(p, "Finish") /\ call[p].resp.challenge = 2
    /\ call[p].before.sessions[<<"alice", loginSessionID>>].challenge = 1
    /\ ret[p].err = ErrVerification
    /\ Done(q, "Finish") /\ call[q].resp.challenge = 1
    /\ ret[q].err = "none"

\* C14: in a sequential run no challenge backs two successful Finish calls,
\* whether or not the session delete of the first one failed.
C14_SingleUseDespiteFailedDelete ==
  \A c \in 1..MaxChallenges : okCount[c] <= 1

\* C15: a Finish that ran the verifier built it with the relying-party ID
\* when the response names a Webauthn device, with the U2F application identity
\* (and not the relying-party ID) when it names a U2F device and an application
\* identity is configured, and in every case with the origin of the response.
C15_RelyingPartySelection ==
  \A p \in Procs :
    Done(p, "Finish") /\ Called(p, "ValidateLogin") =>
      /\ MatchedIndex(p) # 0
      /\ DeviceBefore(p).kind = "webauthn" => ret[p].rpID = RPID
      /\ DeviceBefore(p).kind = "u2f" /\ u2f = "set" =>
           ret[p].rpID = AppID /\ ret[p].rpID # RPID
      /\ ret[p].origin = call[p].resp.origin

C15_Witness ==
  \E p \in Procs :
    /\ Done(p, "Finish") /\ ret[p].err = "none"
    /\ DeviceBefore(p).kind = "u2f"
    /\ ret[p].rpID = AppID
    /\ ret[p].origin = <<"login", "example", "com">>

\* C16: in a sequential run a Finish succeeds only if a session state stored by
\* a successful Begin for the same user was in the store and the verifier
\* accepts the response against that state; with no session state stored the
\* Finish fails, with the not-found session error when it reads the store,
\* without running the verifier and with the devices as they were.
C16_ReplayGuard ==
  \A p \in Procs :
    /\ Done(p, "Finish") /\ ret[p].err = "none" =>
         /\ SessionBefore(p) # NoSession
         /\ SessionBefore(p).challenge \in SeqToSet(stored[call[p].user])
         /\ ValidateLogin(DeviceBefore(p), localAuth[call[p].user], SessionBefore(p),
                          call[p].resp, ret[p].rpID)
    /\ Done(p, "Finish") /\ SessionBefore(p) = NoSession =>
         /\ ret[p].err # "none" /\ ret[p].dev = NoDev
         /\ CalledOK(p, "GetWebauthnSessionData") => ret[p].err = ErrNoSession
         /\ ~Called(p, "ValidateLogin")
         /\ ~Called(p, "UpsertMFADevice")
         /\ devices = call[p].before.devices

\* The session state was never issued: Begin stored none for the user.
C16_Witness ==
  \E p \in Procs :
    /\ Done(p, "Finish") /\ ret[p].err = ErrNoSession
    /\ stored[call[p].user] = <<>>
    /\ call[p].resp.rawID = "cred1" /\ call[p].resp.signedFor = RPID

\* C17: a Finish whose GetWebauthnLocalAuth finds no user handle fails with the
\* missing-handle error, which is none of the request errors, without reading
\* the session state, with no handle created and the stores as they were.
C17_MissingHandle ==
  \A p \in Procs :
    /\ Done(p, "Finish") /\ CalledOK(p, "GetWebauthnLocalAuth")
    /\ call[p].before.localAuth[call[p].user] = NoHandle
    => /\ ret[p].err = ErrNoLocalAuth
       /\ ret[p].err \notin RequestErrors
       /\ ret[p].dev = NoDev
       /\ ~Called(p, "GetWebauthnSessionData")
       /\ localAuth[call[p].user] = NoHandle
       /\ Stores = call[p].before

C17_Witness ==
  \E p \in Procs :
    /\ Done(p, "Finish") /\ ret[p].err = ErrNoLocalAuth
    /\ call[p].user = "alice" /\ call[p].resp.rawID = "kh1"
    /\ Last(calls[p]) = [fn |-> "GetWebauthnLocalAuth", ok |-> TRUE]

\* C18: in a sequential run a Finish whose DeleteWebauthnSessionData fails
\* returns the updated device and no error; the updated device is the stored
\* one and the session state is still stored.
C18_DeleteFailureNonFatal ==
  \A p \in Procs :
    Done(p, "Finish") /\ DeleteFailed(p) =>
      /\ ret[p].err = "none"
      /\ ret[p].dev # NoDev
      /\ ret[p].dev.lastUsed >= call[p].start
      /\ CalledOK(p, "ValidateLogin") /\ CalledOK(p, "UpsertMFADevice")
      /\ devices[call[p].user][MatchedIndex(p)] = ret[p].dev
      /\ SessionOf(call[p].user) = SessionBefore(p)

C18_Witness ==
  \E p \in Procs :
    /\ Done(p, "Finish") /\ DeleteFailed(p)
    /\ ret[p].err = "none"
    /\ ret[p].dev.name = "touch" /\ ret[p].dev.counter = 1
    /\ SessionOf(call[p].user) # NoSession

\* C19: in a sequential run a Finish whose verifier accepted the response and
\* raised the clone warning fails only if UpsertMFADevice fails; with every
\* storage call succeeding it makes the same calls as a Finish without the
\* warning, returns the device without error, has stored the device with the
\* reported sign count and the new last-used time, and has deleted the session
\* state.
C19_CloneWarningAdvisory ==
  \A p \in Procs :
    /\ Done(p, "Finish") /\ ret[p].err = "none" => CallNames(p) = FinishCalls
    /\ Done(p, "Finish") /\ ret[p].warned =>
         /\ CalledOK(p, "ValidateLogin")
         /\ ret[p].err \in {"none", ErrStorage}
         /\ ret[p].err = ErrStorage => Last(calls[p]) = [fn |-> "UpsertMFADevice", ok |-> FALSE]
         /\ AllCallsOK(p) =>
              /\ ret[p].err = "none"
              /\ ret[p].dev = [DeviceBefore(p) EXCEPT
                                 !.counter = SignCount(DeviceBefore(p), call[p].resp),
                                 !.lastUsed = ret[p].dev.lastUsed]
              /\ ret[p].dev.lastUsed >= call[p].start
              /\ devices[call[p].user][MatchedIndex(p)] = ret[p].dev
              /\ SessionOf(call[p].user) = NoSession

C19_Witness ==
  \E p \in Procs :
    /\ Done(p, "Finish") /\ ret[p].warned /\ AllCallsOK(p)
    /\ ret[p].err = "none"
    /\ DeviceBefore(p).counter = 1 /\ call[p].resp.counter = 1
    /\ DeviceBefore(p).lastUsed = 1 /\ ret[p].dev.lastUsed = 2

\* C20: the challenge a successful Begin returns carries the appid extension
\* naming the U2F application identity whenever one is configured and the user
\* has a U2F device, and carries no appid extension when none is configured
\* (f.U2F nil, or its AppID empty).
C20_AppIDExtension ==
  \A p \in Procs :
    Done(p, "Begin") /\ ret[p].err = "none" =>
      /\ (u2f = "set" /\ \E i \in 1..Len(devices[call[p].user]) :
                            devices[call[p].user][i].kind = "u2f")
           => ret[p].assertion.appid = AppID
      /\ u2f # "set" => ret[p].assertion.appid = NoRP

C20_Witness ==
  \E p \in Procs :
    /\ Done(p, "Begin") /\ ret[p].err = "none"
    /\ call[p].user = "alice" /\ u2f = "set"
    /\ "kh1" \in SeqToSet(ret[p].assertion.allowed)
    /\ ret[p].assertion.appid = AppID

\* C21: a Finish that returns a storage error leaves the stores as they were
\* when it started; the same Finish repeated after a storage error that came
\* after a successful verification succeeds when its storage calls succeed; and
\* a Begin repeated after a failed Begin that succeeds returns a challenge never
\* stored before, whose session state replaces the stored one.
C21_RetryFromScratch ==
  \A p \in Procs :
    /\ Done(p, "Finish") /\ ret[p].err = ErrStorage => Stores = call[p].before
    /\ Done(p, "Finish") /\ call[p].retry = "verified" /\ StorageWorked(p) =>
         /\ ret[p].err = "none"
         /\ ret[p].dev.id = call[p].resp.rawID
         /\ CalledOK(p, "UpsertMFADevice")
    /\ Done(p, "Begin") /\ call[p].retry = "failed" /\ ret[p].err = "none" =>
         /\ SessionOf(call[p].user).challenge = ret[p].assertion.challenge
         /\ SessionBefore(p).challenge # ret[p].assertion.challenge
         /\ Last(stored[call[p].user]) = ret[p].assertion.challenge
         /\ \A u \in Users : \A i \in 1..Len(stored[u]) :
              stored[u][i] = ret[p].assertion.challenge
                => u = call[p].user /\ i = Len(stored[u])

\* The repeated Finish succeeded after UpsertMFADevice had failed.
C21_Witness ==
  \E p \in Procs :
    /\ Done(p, "Finish") /\ call[p].retry = "verified"
    /\ ret[p].err = "none"
    /\ ret[p].dev.name = "yubi" /\ ret[p].dev.counter = 1

\* C22: in a sequential run a Begin that returns an error, at whatever step,
\* leaves the stored session states and the devices as they were when it
\* started; the only store it may have changed is the user handle of its user,
\* created where there was none.  UpsertWebauthnSessionData is the last
\* collaborator call of every Begin that makes it.
C22_FailedBeginKeepsSession ==
  \A p \in Procs :
    /\ Done(p, "Begin") /\ ret[p].err # "none" =>
         /\ sessions = call[p].before.sessions
         /\ devices = call[p].before.devices
         /\ \A u \in Users : u # call[p].user => localAuth[u] = call[p].before.localAuth[u]
         /\ \/ localAuth = call[p].before.localAuth
            \/ /\ call[p].before.localAuth[call[p].user] = NoHandle
               /\ localAuth[call[p].user] = HandleOf(call[p].user)
               /\ CalledOK(p, "getOrCreateUserWebauthnID")
         /\ ret[p].assertion = NoAssertion
    /\ call[p].op = "Begin" =>
         \A i \in 1..Len(calls[p]) :
           calls[p][i].fn = "UpsertWebauthnSessionData" => i = Len(calls[p]) /\ pc[p] = "done"

\* The Begin failed at its UpsertWebauthnSessionData while the session state of
\* an earlier challenge was stored.
C22_Witness ==
  \E p \in Procs :
    /\ Done(p, "Begin") /\ ret[p].err = ErrStorage
    /\ Last(calls[p]) = [fn |-> "UpsertWebauthnSessionData", ok |-> FALSE]
    /\ SessionOf(call[p].user) # NoSession
    /\ SessionOf(call[p].user).challenge = 1 /\ nextChal = 3

\* C23: for every list of registered devices, a Finish that goes on after
\* its device lookup holds the first device of the list, of kind U2F or
\* Webauthn, whose identifier is byte for byte the response's raw id, and that
\* device is the one it hands to the verifier; it fails with the
\* unknown-credential error exactly when the list has no such device; and the
\* device a successful Finish returns is that device of the list.
C23_ExactDeviceMatch ==
  \A p \in Procs :
    /\ call[p].op = "Finish" /\ pc[p] \in {"F_GetLocalAuth", "F_GetSession", "F_ValidateLogin"} =>
         /\ EqualIDPositions(p) # {}
         /\ loc[p].dev = FirstEqualID(p)
    /\ Done(p, "Finish") /\ ret[p].err = ErrUnknownCredential => EqualIDPositions(p) = {}
    /\ Done(p, "Finish") /\ CalledOK(p, "GetMFADevices") /\ EqualIDPositions(p) = {} =>
         ret[p].err = ErrUnknownCredential
    /\ Done(p, "Finish") /\ ret[p].err = "none" =>
         /\ EqualIDPositions(p) # {}
         /\ ret[p].dev.name = FirstEqualID(p).name
         /\ ret[p].dev.kind = FirstEqualID(p).kind
         /\ ret[p].dev.id = call[p].resp.rawID

\* The first device of the list has a key handle that the response's raw id is
\* a prefix of; the device returned is the second one, with the equal id.
C23_Witness ==
  \E p \in Procs :
    /\ Done(p, "Finish") /\ ret[p].err = "none"
    /\ call[p].resp.rawID = <<1>>
    /\ call[p].before.devices["alice"][1].kind = "u2f"
    /\ call[p].before.devices["alice"][1].id = <<1, 2>>
    /\ ret[p].dev.name = "d2"

\* C24: MatchResourceLabels(selectors, resource) returns true if any of the
\* selectors matches the resource's labels, wherever that selector stands in the
\* list (in particular after a selector with empty MatchLabels), and false when
\* none matches.  Stated for selectors whose expressions all compile.
C24_AnySelectorMatches ==
  (mResult.fn = "MatchResourceLabels" /\ ExpressionsCompile(selectors))
    => (mResult.value <=> \E i \in 1..Len(selectors) : SelectorMatches(selectors[i], mResource))

\* C25: Watcher.Start does one fetch-and-send at once and then one per tick it
\* receives; no batch is sent after it has returned; and once the context is
\* cancelled it returns, even if nobody receives from DatabasesC (a pending
\* send is abandoned), given that every Fetcher.Get returns.
C25_StartFetchesAndTerminates ==
  /\ []((WatcherRunning \/ wPc = "returned")
          => (wLog.rounds = wLog.consumed + 1 /\ wLog.consumed <= wLog.ticks))
  /\ [][wPc = "returned" => (wPc' = "returned" /\ wLog' = wLog)]_vars
  /\ ((ctxDone /\ wPc # "off") ~> (wPc = "returned"))

\* Start has returned after cancellation although no batch was ever received:
\* both of its rounds ended in an abandoned send.
C25_Witness ==
  /\ wPc = "returned" /\ ctxDone
  /\ wLog.sent = 0 /\ wLog.rounds = 2 /\ wLog.abandoned = 2

\* C26: every round of fetchAndSend asks every fetcher and ends in one send:
\* the batch is the concatenation, in fetcher order, of the results of the
\* fetchers whose Get succeeded; a failed Get contributes nothing and stops
\* nothing, and the (possibly empty) batch is sent even if every Get failed.
C26_BatchOfSuccessfulFetchers ==
  /\ wPc = "send" => (OnePerFetcher(wLoc.got) /\ wLoc.result = SuccessfulResults(wLoc.got))
  /\ wLog.sent > 0 => (OnePerFetcher(wLog.got) /\ wLog.batch = SuccessfulResults(wLog.got))
  /\ wPc \in {"select", "returned"} => wLog.sent + wLog.abandoned = wLog.rounds
  /\ wPc \in {"fetch", "send"} => wLog.sent + wLog.abandoned + 1 = wLog.rounds

\* The batch received last came from a round whose first fetcher failed and
\* whose second succeeded, and the batch now being sent is the empty one of a
\* round in which every fetcher failed.
C26_Witness ==
  /\ Len(fetchers) >= 2
  /\ wLog.sent > 0 /\ wLog.got[1].err /\ wLog.got[2] = [err |-> FALSE, databases |-> <<2>>]
  /\ wLog.batch = <<2>>
  /\ wPc = "send" /\ wLoc.result = <<>>
  /\ \A k \in 1..Len(fetchers) : wLoc.got[k].err

\* C27: a watcher goroutine stores the batch it received before it sends its
\* signal, so every Reconcile triggered by a signal is computed from
\* static ++ dynamic ++ cloud databases that include that batch or a newer
\* one; and after the context is cancelled the reconciler loop and both
\* watcher goroutines exit, a goroutine blocked sending its signal included.
C27_StoredBeforeSignalled ==
  /\ [](/\ \A g \in Watchers : rPc[g] = "signal" => StoredBy(g) = rHeld[g]
        /\ \A k \in 1..Len(reconcileCh) :
             IncludesBatch(StoredBy(reconcileCh[k].src), reconcileCh[k].src, reconcileCh[k].v)
        /\ rPc["reconciler"] = "reconcile"
             => IncludesBatch(StoredBy(rRun.signal.src), rRun.signal.src, rRun.signal.v)
        /\ rRun.runs > 0 /\ rPc["reconciler"] # "reconcile"
             => /\ IncludesBatch(rRun.input, rRun.signal.src, rRun.signal.v)
                /\ SubSeq(rRun.input, 1, Len(StaticDatabases)) = StaticDatabases)
  /\ (ctxDone ~> (\A g \in Goroutines : rPc[g] \in {"off", "exited"}))

\* The last Reconcile was triggered by the signal for the first cloud batch and
\* computed from the second one, and after cancellation all three goroutines
\* have exited, the dynamic watcher while its signal was still pending.
C27_Witness ==
  /\ ctxDone
  /\ \A g \in Goroutines : rPc[g] = "exited"
  /\ rRun.signal = [src |-> "cloud", v |-> 1]
  /\ IncludesBatch(rRun.input, "cloud", 2)
  /\ rHeld["dynamic"] # <<>>

\* C28: startCloudDatabasesWatcher returns nil and starts no goroutine whenever
\* the configuration yields no cloud fetcher (an empty selector list, or no
\* selector with RDS tags), and returns an error only when creating a cloud
\* client or a fetcher failed.
C28_NoFetchersNoWatcher ==
  scRet # "none" =>
    /\ makeFetchers(selectors) = <<>> => (scRet = "nil" /\ wPc = "off" /\ rPc["cloud"] = "off")
    /\ scRet # "nil" => scRet \in {ErrCloudClient, ErrFetcher}

====
